---------------------------- MODULE Spec2Model ----------------------------
(***************************************************************************)
(* Puff domain monitor: the domain checker (RDAP first, WHOIS fallback),    *)
(* the CheckDomains worker pool, the Monitor (change detection, cache,      *)
(* lifecycle) and the NotificationManager (24h deduplication).              *)
(*                                                                         *)
(* Strings that the code inspects character by character (domain names)    *)
(* are sequences of one-character strings.  The monitor's time is in        *)
(* minutes, the notification manager's in hours.                            *)
(***************************************************************************)
EXTENDS Integers, Sequences, FiniteSets, TLC

VARIABLES
    \* ---- DomainChecker.CheckDomain, one call ----
    chkPc,          \* "call" | "done"
    chkDomain,      \* the argument of CheckDomain
    chkNet,         \* what the network answers during the call
    chkInfo,        \* the returned *DomainInfo (Nil before the return)
    chkTrace,       \* the network queries the call issued, in order
    \* ---- DomainChecker.CheckDomains, one call ----
    cdPc,           \* position of the caller: "start" | "send" | "collect" | "done"
    cdDomains,      \* the argument: domains []string
    cdLimit,        \* config.Monitor.ConcurrentLimit
    jobs,           \* chan job (buffered len(domains)): the queued jobs
    jobsClosed,     \* close(jobs) happened
    results_chan,   \* the buffered result channel
    results,        \* results []*DomainInfo (Nil = nil slot)
    workers,        \* worker goroutine -> [pc, job, info]
    cdSent,         \* jobs sent so far by the caller (loop variable i)
    cdCollected,    \* results received so far by the caller (loop variable i)
    checked,        \* history: input index -> sequence of infos CheckDomain returned for it
    cdOrder,        \* history: the input indices in the order their results were collected
    \* ---- Monitor ----
    domains,        \* m.domains
    isRunning,      \* m.isRunning
    stopClosed,     \* m.stopCh has been closed
    stopPanics,     \* number of close(m.stopCh) on an already closed channel
    notifications,  \* m.notifications (buffered channel of StatusChangeEvent)
    lastStatus,     \* m.lastStatus: domain -> DomainStatus
    lastResults,    \* m.lastResults
    lastStatsTime,  \* m.lastStatsTime
    cache,          \* m.cache.data: key -> [Data, ExpiresAt, AccessTime]
    loops,          \* monitorLoop goroutines: id -> [pc, domains, results, i]
    fc,             \* the ForceCheck call in progress: [pc, domain, info]
    gd,             \* the GetDomainInfo call in progress: [pc, domain, info]
    now,            \* time.Now()
    starts,         \* number of successful Start calls (bounded)
    \* ---- NotificationManager ----
    queue,          \* nm.queue (buffered channel of NotificationEvent)
    queueClosed,    \* close(nm.queue) happened
    enabled,        \* nm.enabled
    sentHistory,    \* nm.sentHistory: domain -> status -> last sent time
    nmNow,          \* time.Now() as seen by the manager, in hours
    senders,        \* SendNotification calls: calling goroutine -> [pc, event]
    lastSend,       \* history: the last SendNotification call: its event, whether a send
                    \* of its key was on record (had) and less than 24h old (within)
                    \* at the deduplication test, whether the queue had room at the
                    \* select, and how the call ended
    recorded,       \* history: <<domain, status>> -> time of the last recorded send
    \* ---- Cache, used on its own ----
    cacheCall,      \* the last call of the cache: [op, key, value returned, evicted key]
    hitCount,       \* c.hitCount
    missCount,      \* c.missCount
    \* ---- Monitor.GetAllDomainInfo ----
    ga,             \* the GetAllDomainInfo call in progress: [pc, domains, results]
    gaRet,          \* what the last GetAllDomainInfo call returned and whether it queried
    \* ---- DomainInfo.GetSmartCacheDuration, one call ----
    ttlInfo,        \* the receiver
    ttlNow,         \* time.Now() during the call, in minutes
    ttlOut,         \* the duration returned, in minutes (NoTime before the return)
    \* ---- DomainChecker.ValidateDomain, one call ----
    vdName,         \* the argument
    vdErr,          \* the error returned (Nil for nil; "pending" before the return)
    \* ---- WhoisClient.QueryWhois and ParseWhoisResponse, one query ----
    whExchange,     \* what the TCP exchange brings
    whNow,          \* time.Now() at the parse
    whRet,          \* what QueryWhois returned: [response, err] (WhPending before)
    whStatus,       \* the status parsed from the response (Nil before the parse)
    \* ---- RDAPClient.ParseRDAPResponse, one call ----
    rpResp,         \* the decoded response
    rpInfo,         \* the *DomainInfo returned (NilInfo before the return)
    \* ---- NotificationManager: the dispatcher and the notifiers ----
    notifiers,      \* nm.notifiers: per registered notifier, what IsEnabled() returns
    dispatcher,     \* processNotifications: [pc, event]
    accepted,       \* the events accepted into nm.queue, in order (history)
    taken,          \* the events the dispatcher has received, in order (history)
    invoked,        \* the SendMessage calls made, as <<event, notifier>> (history)
    sending,        \* the SendMessage calls that have not returned
    \* ---- NotificationManager.ClearHistory ----
    sweep           \* the last ClearHistory call: [before, at] (history)

chkVars == <<chkPc, chkDomain, chkNet, chkInfo, chkTrace>>
cdVars  == <<cdPc, cdDomains, cdLimit, jobs, jobsClosed, results_chan, results,
             workers, cdSent, cdCollected, checked, cdOrder>>
monVars == <<domains, isRunning, stopClosed, stopPanics, notifications, lastStatus,
             lastResults, lastStatsTime, cache, loops, fc, gd, now, starts>>
nmVars  == <<queue, queueClosed, enabled, sentHistory, nmNow, senders, lastSend,
             recorded>>
cacheVars == <<cacheCall, hitCount, missCount>>
accVars == <<ga, gaRet>>
ttlVars == <<ttlInfo, ttlNow, ttlOut>>
vdVars == <<vdName, vdErr>>
whVars == <<whExchange, whNow, whRet, whStatus>>
rpVars == <<rpResp, rpInfo>>
dspVars == <<notifiers, dispatcher, accepted, taken, invoked, sending>>
pureVars == <<vdVars, whVars, rpVars, dspVars, sweep>>
extVars == <<cacheVars, accVars, ttlVars, pureVars>>
vars    == <<chkVars, cdVars, monVars, nmVars, extVars>>

\* Go's nil for errors and strings-as-options; a nil *time.Time; a nil *DomainInfo.
Nil == "nil"
NoTime == -1

-----------------------------------------------------------------------------
(* DomainStatus, src/core/status.go *)

StatusAvailable      == "available"
StatusRegistered     == "registered"
StatusRedemption     == "redemption"
StatusPendingDelete  == "pending_delete"
StatusExpired        == "expired"
StatusTransferLocked == "transfer_locked"
StatusHold           == "hold"
StatusUnknown        == "unknown"
StatusError          == "error"

DomainStatus ==
    {StatusAvailable, StatusRegistered, StatusRedemption, StatusPendingDelete,
     StatusExpired, StatusTransferLocked, StatusHold, StatusUnknown, StatusError}

\* A *DomainInfo.  Registrar, created/updated dates and name servers play no
\* part in any decision of the checker or the monitor and are left out.
DomainInfo(name, status, method, msg, expiry) ==
    [Name |-> name, Status |-> status, QueryMethod |-> method,
     ErrorMessage |-> msg, ExpiryDate |-> expiry]

NilInfo == DomainInfo(<<>>, Nil, "", "", NoTime)


-----------------------------------------------------------------------------
(* strings *)

\* strings.ToLower on one character
LowerChar(c) ==
    CASE c = "A" -> "a"
      [] c = "C" -> "c"
      [] c = "X" -> "x"
      [] OTHER   -> c

ToLower(s) == [i \in 1..Len(s) |-> LowerChar(s[i])]

RECURSIVE TrimLeft(_)
TrimLeft(s) ==
    IF s # <<>> /\ Head(s) = " " THEN TrimLeft(Tail(s)) ELSE s

RECURSIVE TrimRight(_)
TrimRight(s) ==
    IF s # <<>> /\ s[Len(s)] = " " THEN TrimRight(SubSeq(s, 1, Len(s) - 1)) ELSE s

\* strings.TrimSpace
TrimSpace(s) == TrimRight(TrimLeft(s))

\* strings.Split(s, "."): always at least one part, empty parts are kept.
\* The k-th part lies between the (k-1)-th and the k-th dot.
SplitDot(s) ==
    LET dots     == { i \in 1..Len(s) : s[i] = "." }
        n        == Cardinality(dots)
        dotAt(k) == IF k = 0 THEN 0
                    ELSE IF k = n + 1 THEN Len(s) + 1
                    ELSE CHOOSE i \in dots : Cardinality({ j \in dots : j < i }) = k - 1
    IN  [k \in 1..(n + 1) |-> SubSeq(s, dotAt(k - 1) + 1, dotAt(k) - 1)]

-----------------------------------------------------------------------------
(* TLD registry, src/config/servers.go.  One table serves both lookups. *)

serversConfig == { <<"c">> }

GetRDAPServerByTLD(tld) == tld \in serversConfig

GetWhoisServerByTLD(tld) == tld \in serversConfig

-----------------------------------------------------------------------------
(* RDAP client, src/core/status.go *)

\* strings.ToLower on a status token
LowerToken(t) ==
    CASE t = "ACTIVE"         -> "active"
      [] t = "Pending Delete" -> "pending delete"
      [] t = "Client Hold"    -> "client hold"
      [] OTHER                -> t

\* What the HTTP exchange of one QueryRDAP call brings: whether Do or ReadAll
\* fails, the HTTP status code and, for a body that decodes as JSON, the decoded
\* errorCode, status tokens and expiration event.
HTTPExchange(fail, code, json, errorCode, status, expiration) ==
    [fail |-> fail, StatusCode |-> code, json |-> json, ErrorCode |-> errorCode,
     Status |-> status, Expiration |-> expiration]

\* QueryRDAP returns (resp, err); err = Nil is Go's nil error.
\* QueryRDAP with a 404 handled like every other status that is not 200
QueryRDAP_404IsError(domain, x) ==
    IF x.fail = "do" THEN [resp |-> Nil, err |-> "http request failed"]
    ELSE IF x.fail = "read" THEN [resp |-> Nil, err |-> "reading the body failed"]
    ELSE IF x.StatusCode # 200 THEN [resp |-> Nil, err |-> "bad status code"]
    ELSE IF ~x.json THEN [resp |-> Nil, err |-> "json decoding failed"]
    ELSE [resp |-> [ErrorCode |-> x.ErrorCode, Status |-> x.Status,
                    Expiration |-> x.Expiration],
          err |-> Nil]

QueryRDAP(domain, x) ==
    IF x.fail = "do" THEN [resp |-> Nil, err |-> "http request failed"]
    ELSE IF x.fail = "read" THEN [resp |-> Nil, err |-> "reading the body failed"]
    ELSE IF x.StatusCode = 404
        THEN [resp |-> [ErrorCode |-> 404, Status |-> <<>>, Expiration |-> NoTime],
              err |-> Nil]
    ELSE IF x.StatusCode # 200 THEN [resp |-> Nil, err |-> "bad status code"]
    ELSE IF ~x.json THEN [resp |-> Nil, err |-> "json decoding failed"]
    ELSE [resp |-> [ErrorCode |-> x.ErrorCode, Status |-> x.Status,
                    Expiration |-> x.Expiration],
          err |-> Nil]

\* parseRDAPStatus matching the tokens as they are written
parseRDAPStatus_CaseSensitive(statuses) ==
    LET has(t) == \E i \in 1..Len(statuses) : statuses[i] = t
    IN  IF Len(statuses) = 0 THEN StatusUnknown
        ELSE IF has("redemption period") \/ has("redemptionperiod")
            THEN StatusRedemption
        ELSE IF has("pending delete") \/ has("pendingdelete")
            THEN StatusPendingDelete
        ELSE IF has("expired") THEN StatusExpired
        ELSE IF has("client hold") \/ has("server hold")
                \/ has("registrar hold") \/ has("registry hold")
            THEN StatusHold
        ELSE IF has("client transfer prohibited") \/ has("server transfer prohibited")
                \/ has("clienttransferprohibited") \/ has("servertransferprohibited")
            THEN StatusTransferLocked
        ELSE StatusRegistered

parseRDAPStatus(statuses) ==
    LET statusMap == { LowerToken(statuses[i]) : i \in 1..Len(statuses) }
        has(t)    == t \in statusMap
    IN  IF Len(statuses) = 0 THEN StatusUnknown
        ELSE IF has("redemption period") \/ has("redemptionperiod")
            THEN StatusRedemption
        ELSE IF has("pending delete") \/ has("pendingdelete")
            THEN StatusPendingDelete
        ELSE IF has("expired") THEN StatusExpired
        ELSE IF has("client hold") \/ has("server hold")
                \/ has("registrar hold") \/ has("registry hold")
            THEN StatusHold
        ELSE IF has("client transfer prohibited") \/ has("server transfer prohibited")
                \/ has("clienttransferprohibited") \/ has("servertransferprohibited")
            THEN StatusTransferLocked
        ELSE IF has("ok") \/ has("active") \/ has("client update prohibited")
                \/ has("server update prohibited") \/ has("client delete prohibited")
                \/ has("server delete prohibited")
            THEN StatusRegistered
        ELSE StatusRegistered

ParseRDAPResponse(domain, rdapResp) ==
    IF rdapResp.ErrorCode = 404
    THEN DomainInfo(domain, StatusAvailable, "rdap", "", NoTime)
    ELSE DomainInfo(domain, parseRDAPStatus(rdapResp.Status), "rdap", "",
                    rdapResp.Expiration)

-----------------------------------------------------------------------------
(* WHOIS client, src/core/whois.go *)

\* (the two Chinese patterns of availablePatterns are left out)
availablePatterns ==
    <<"no matching record", "not found", "no data found", "not exist", "available",
      "no entries found", "status: free", "not registered">>
redemptionPatterns ==
    <<"redemption", "pending restore", "redemptionperiod", "pending delete restorable">>
pendingDeletePatterns == <<"pending delete", "pendingdelete", "to be released">>
expiredPatterns == <<"expired", "expiry date", "expires:">>
holdPatterns == <<"client hold", "server hold", "registrar hold", "registry hold">>
transferLockPatterns ==
    <<"transfer prohibited", "clienttransferprohibited", "servertransferprohibited">>
registeredPatterns ==
    <<"registrar:", "registrant:", "domain status:", "status:", "creation date:",
      "expiry date:", "name server">>

\* A WHOIS response text, by what the parser reads of it: the patterns its
\* lower-cased text contains, the date parseDate reads after its expiry label
\* (NoTime when there is no such label or the date does not parse), and the
\* date isExpired reads after the label in the lower-cased text.  A date
\* written like 2006-01-02 reads the same in both; a date written like
\* 2006-01-02T15:04:05Z does not parse once its T and Z are lower-cased.
WhoisText(contains, expiry) ==
    [contains |-> contains, expiry |-> expiry, lowered |-> expiry]
WhoisTextTZ(contains, expiry) ==
    [contains |-> contains, expiry |-> expiry, lowered |-> NoTime]

\* What the TCP exchange of one QueryWhois call brings: the text received and
\* how the exchange ends.  "dial": DialTimeout fails; "write": Write fails;
\* "read": a Read returns bytes together with an error; "deadline", "reset":
\* a Read returns no bytes and an error (the deadline passed, the connection
\* was reset) after text was received; "cap": more than 100KB were received;
\* "none": the peer closed the connection (a Read returns 0, io.EOF).
TCPExchange(fail, text) == [fail |-> fail, text |-> text]

\* no QueryWhois call has returned yet
WhPending == [response |-> Nil, err |-> "pending"]

\* QueryWhois returns (response, err).  The read loop leaves with an error only
\* when Read returns bytes together with the error; on an error without bytes
\* (n == 0) it breaks and what was read so far is returned.
QueryWhois(domain, w) ==
    IF w.fail = "dial" THEN [response |-> Nil, err |-> "connect failed"]
    ELSE IF w.fail = "write" THEN [response |-> Nil, err |-> "write failed"]
    ELSE IF w.fail = "read" THEN [response |-> Nil, err |-> "read failed"]
    ELSE [response |-> w.text, err |-> Nil]

\* for _, pattern := range patterns { if strings.Contains(response, pattern) ... }
ContainsAny(response, patterns) ==
    \E i \in 1..Len(patterns) : patterns[i] \in response.contains

isExpired(response, t) == response.lowered # NoTime /\ response.lowered < t

\* parseStatus with the pending-delete group tried before the redemption group
parseStatus_PendingFirst(response, t) ==
    IF ContainsAny(response, availablePatterns) THEN StatusAvailable
    ELSE IF ContainsAny(response, pendingDeletePatterns) THEN StatusPendingDelete
    ELSE IF ContainsAny(response, redemptionPatterns) THEN StatusRedemption
    ELSE IF ContainsAny(response, expiredPatterns) /\ isExpired(response, t)
        THEN StatusExpired
    ELSE IF ContainsAny(response, holdPatterns) THEN StatusHold
    ELSE IF ContainsAny(response, transferLockPatterns) THEN StatusTransferLocked
    ELSE IF ContainsAny(response, registeredPatterns) THEN StatusRegistered
    ELSE StatusUnknown

parseStatus(response, t) ==
    IF ContainsAny(response, availablePatterns) THEN StatusAvailable
    ELSE IF ContainsAny(response, redemptionPatterns) THEN StatusRedemption
    ELSE IF ContainsAny(response, pendingDeletePatterns) THEN StatusPendingDelete
    ELSE IF ContainsAny(response, expiredPatterns) /\ isExpired(response, t)
        THEN StatusExpired
    ELSE IF ContainsAny(response, holdPatterns) THEN StatusHold
    ELSE IF ContainsAny(response, transferLockPatterns) THEN StatusTransferLocked
    ELSE IF ContainsAny(response, registeredPatterns) THEN StatusRegistered
    ELSE StatusUnknown

ParseWhoisResponse(domain, response, t) ==
    DomainInfo(domain, parseStatus(response, t), "whois", "", response.expiry)

-----------------------------------------------------------------------------
(* DomainChecker, src/unnamed/part_003 *)

\* The error messages of the checker (the code's texts are Chinese).
MsgNoTLD           == "cannot extract the TLD of the domain"
MsgBothFailed      == "WHOIS and RDAP queries both failed"
MsgUnsupportedRDAP == "unsupported TLD (RDAP)"
MsgRDAPFailed      == "RDAP query failed"
MsgUnsupportedWhois == "unsupported TLD (WHOIS)"
MsgWhoisFailed     == "WHOIS query failed"

extractTLD(domain) ==
    LET parts == SplitDot(domain)
    IN  IF Len(parts) < 2 THEN <<>> ELSE parts[Len(parts)]

\* tryRDAPQuery and tryWhoisQuery return the *DomainInfo together with the
\* network queries they issued.
tryRDAPQuery(domain, tld, x) ==
    IF ~GetRDAPServerByTLD(tld)
    THEN [info |-> DomainInfo(domain, StatusError, "", MsgUnsupportedRDAP, NoTime),
          queries |-> <<>>]
    ELSE LET r == QueryRDAP(domain, x)
         IN  IF r.err # Nil
             THEN [info |-> DomainInfo(domain, StatusError, "", MsgRDAPFailed, NoTime),
                   queries |-> <<"rdap">>]
             ELSE [info |-> ParseRDAPResponse(domain, r.resp),
                   queries |-> <<"rdap">>]

\* tryWhoisQuery with the message of a failed query forgotten
tryWhoisQuery_NoMessage(domain, tld, w, t) ==
    IF ~GetWhoisServerByTLD(tld)
    THEN [info |-> DomainInfo(domain, StatusError, "", MsgUnsupportedWhois, NoTime),
          queries |-> <<>>]
    ELSE LET r == QueryWhois(domain, w)
         IN  IF r.err # Nil
             THEN [info |-> DomainInfo(domain, StatusError, "", "", NoTime),
                   queries |-> <<"whois">>]
             ELSE [info |-> ParseWhoisResponse(domain, r.response, t),
                   queries |-> <<"whois">>]

tryWhoisQuery(domain, tld, w, t) ==
    IF ~GetWhoisServerByTLD(tld)
    THEN [info |-> DomainInfo(domain, StatusError, "", MsgUnsupportedWhois, NoTime),
          queries |-> <<>>]
    ELSE LET r == QueryWhois(domain, w)
         IN  IF r.err # Nil
             THEN [info |-> DomainInfo(domain, StatusError, "", MsgWhoisFailed, NoTime),
                   queries |-> <<"whois">>]
             ELSE [info |-> ParseWhoisResponse(domain, r.response, t),
                   queries |-> <<"whois">>]

\* CheckDomain with the two protocols tried in the other order
CheckDomainRun_WhoisFirst(domainArg, net, t) ==
    LET domain == ToLower(TrimSpace(domainArg))
        tld    == extractTLD(domain)
    IN  IF tld = <<>>
        THEN [info |-> DomainInfo(domain, StatusError, "", MsgNoTLD, NoTime),
              queries |-> <<>>]
        ELSE LET whois == tryWhoisQuery(domain, tld, net.whois, t)
             IN  IF whois.info # NilInfo /\ whois.info.Status # StatusError
                 THEN whois
                 ELSE LET rdap == tryRDAPQuery(domain, tld, net.rdap)
                      IN  [info |-> rdap.info,
                           queries |-> whois.queries \o rdap.queries]

\* One run of CheckDomain at time t against the network net = [rdap, whois]:
\* the returned *DomainInfo and the queries issued, in order.
CheckDomainRun(domainArg, net, t) ==
    LET domain == ToLower(TrimSpace(domainArg))
        tld    == extractTLD(domain)
    IN  IF tld = <<>>
        THEN [info |-> DomainInfo(domain, StatusError, "", MsgNoTLD, NoTime),
              queries |-> <<>>]
        ELSE LET rdap == tryRDAPQuery(domain, tld, net.rdap)
             IN  IF rdap.info # NilInfo /\ rdap.info.Status # StatusError
                 THEN rdap
                 ELSE LET whois == tryWhoisQuery(domain, tld, net.whois, t)
                      IN  IF whois.info # NilInfo
                          THEN [info |-> whois.info,
                                queries |-> rdap.queries \o whois.queries]
                          ELSE [info |-> DomainInfo(domain, StatusError, "",
                                                    MsgBothFailed, NoTime),
                                queries |-> rdap.queries \o whois.queries]

CheckDomain(domainArg, net, t) == CheckDomainRun(domainArg, net, t).info

-----------------------------------------------------------------------------
(* The parts of the state a specification does not use stay as constructed. *)

cdIdle ==
    /\ cdPc = "idle" /\ cdDomains = <<>> /\ cdLimit = 1
    /\ jobs = <<>> /\ jobsClosed = FALSE /\ results_chan = <<>> /\ results = <<>>
    /\ workers = <<>> /\ cdSent = 0 /\ cdCollected = 0 /\ checked = <<>>
    /\ cdOrder = <<>>

monIdle ==
    /\ domains = <<>> /\ isRunning = FALSE /\ stopClosed = FALSE /\ stopPanics = 0
    /\ notifications = <<>> /\ lastStatus = <<>> /\ lastResults = <<>>
    /\ lastStatsTime = NoTime /\ cache = <<>> /\ loops = <<>>
    /\ fc = [pc |-> "idle"] /\ gd = [pc |-> "idle"]
    /\ now = 0 /\ starts = 0

nmIdle ==
    /\ queue = <<>> /\ queueClosed = FALSE /\ enabled = TRUE /\ sentHistory = <<>>
    /\ nmNow = 0 /\ senders = <<>> /\ lastSend = [outcome |-> "none"]
    /\ recorded = <<>>

chkIdle ==
    /\ chkPc = "idle" /\ chkDomain = <<>> /\ chkInfo = NilInfo /\ chkTrace = <<>>
    /\ chkNet = [t |-> 0]

cacheIdle == cacheCall = [op |-> "none"] /\ hitCount = 0 /\ missCount = 0

accIdle == ga = [pc |-> "idle"] /\ gaRet = [queried |-> FALSE, results |-> <<>>]

ttlIdle == ttlInfo = NilInfo /\ ttlNow = 0 /\ ttlOut = NoTime

vdIdle == vdName = <<>> /\ vdErr = "pending"

whIdle ==
    /\ whExchange = [fail |-> "none"] /\ whNow = 0
    /\ whRet = WhPending /\ whStatus = Nil

rpIdle == rpResp = [ErrorCode |-> 0] /\ rpInfo = NilInfo

dspIdle ==
    /\ notifiers = <<>> /\ dispatcher = [pc |-> "none"]
    /\ accepted = <<>> /\ taken = <<>> /\ invoked = <<>> /\ sending = {}

sweepIdle == sweep = [at |-> NoTime]

pureIdle == vdIdle /\ whIdle /\ rpIdle /\ dspIdle /\ sweepIdle

extIdle == cacheIdle /\ accIdle /\ ttlIdle /\ pureIdle

-----------------------------------------------------------------------------
(* SpecChecker: calls of CheckDomain, one after the other, over every name of *)
(* CheckerDomains and every network behaviour of CheckerNets.                *)

A_C == <<"a", ".", "c">>

CheckerDomains ==
    { A_C,                                  \* supported TLD
      <<" ", "A", ".", "C", " ">>,          \* the same, to be normalised
      <<"a", ".", "x">>,                    \* TLD without server mapping
      <<"a", ".", "b", ".", "c">>,
      <<"a", "c">>,                         \* no dot
      <<"a", ".">>,                         \* empty last label
      <<"-", "a", ".", "c">>,               \* malformed label, supported TLD
      <<>> }

RDAPExchanges ==
    { HTTPExchange("do", 0, FALSE, 0, <<>>, NoTime),
      HTTPExchange("read", 200, FALSE, 0, <<>>, NoTime),
      HTTPExchange("none", 404, FALSE, 0, <<>>, NoTime),
      HTTPExchange("none", 500, FALSE, 0, <<>>, NoTime),
      HTTPExchange("none", 204, FALSE, 0, <<>>, NoTime),
      HTTPExchange("none", 429, TRUE, 0, <<"ACTIVE">>, 9),
      HTTPExchange("none", 200, FALSE, 0, <<>>, NoTime),
      HTTPExchange("none", 200, TRUE, 0, <<>>, NoTime),
      HTTPExchange("none", 200, TRUE, 404, <<>>, NoTime),
      HTTPExchange("none", 200, TRUE, 0, <<"ACTIVE">>, 9),
      HTTPExchange("none", 200, TRUE, 0, <<"ok", "Pending Delete">>, NoTime),
      HTTPExchange("none", 200, TRUE, 0, <<"client transfer prohibited", "Client Hold">>, NoTime) }

WhoisExchanges ==
    { TCPExchange("dial", WhoisText({}, NoTime)),
      TCPExchange("write", WhoisText({}, NoTime)),
      TCPExchange("read", WhoisText({}, NoTime)),
      TCPExchange("deadline", WhoisText({}, NoTime)),
      TCPExchange("none", WhoisText({}, NoTime)),
      TCPExchange("none", WhoisText({"not found"}, NoTime)),
      TCPExchange("none", WhoisText({"status:", "pending delete"}, NoTime)),
      TCPExchange("none", WhoisText({"registrar:", "expiry date", "expiry date:"}, 3)) }

CheckerNets ==
    { [rdap |-> x, whois |-> w, t |-> t] :
        x \in RDAPExchanges, w \in WhoisExchanges, t \in {1, 5} }

ChkInit ==
    /\ chkPc = "call"
    /\ chkDomain \in CheckerDomains
    /\ chkNet \in CheckerNets
    /\ chkInfo = NilInfo
    /\ chkTrace = <<>>

\* info := d.CheckDomain(domain)
ChkCall ==
    /\ chkPc = "call"
    /\ LET run == CheckDomainRun(chkDomain, chkNet, chkNet.t)
       IN  /\ chkInfo' = run.info
           /\ chkTrace' = run.queries
    /\ chkPc' = "done"
    /\ UNCHANGED <<chkDomain, chkNet, cdVars, monVars, nmVars, extVars>>

\* the next call, with another argument against another network behaviour
ChkAgain ==
    /\ chkPc = "done"
    /\ chkPc' = "call"
    /\ chkDomain' \in CheckerDomains
    /\ chkNet' \in CheckerNets
    /\ chkInfo' = NilInfo
    /\ chkTrace' = <<>>
    /\ UNCHANGED <<cdVars, monVars, nmVars, extVars>>

SpecCheckerInit == ChkInit /\ cdIdle /\ monIdle /\ nmIdle /\ extIdle

SpecCheckerNext == ChkCall \/ ChkAgain

SpecChecker == SpecCheckerInit /\ [][SpecCheckerNext]_vars

\* The call's normalised name and its TLD, and what the network of the call
\* does, read off the exchange itself.
ChkName == ToLower(TrimSpace(chkDomain))
ChkTLD  == extractTLD(ChkName)

\* the RDAP attempt ends without error: a server is mapped and the exchange
\* brings a 404 or a decodable 200
ChkRDAPAnswers ==
    /\ ChkTLD # <<>>
    /\ ChkTLD \in serversConfig
    /\ chkNet.rdap.fail = "none"
    /\ \/ chkNet.rdap.StatusCode = 404
       \/ chkNet.rdap.StatusCode = 200 /\ chkNet.rdap.json

\* the WHOIS attempt fails: no server is mapped, or the exchange fails
ChkWhoisFails ==
    \/ ChkTLD \notin serversConfig
    \/ QueryWhois(ChkName, chkNet.whois).err # Nil

\* C7: CheckDomain attempts RDAP first; when the RDAP result is not an error it
\* is returned at once and no WHOIS query is issued; a WHOIS query is issued
\* only after the RDAP attempt ended in an error.
C7_RDAPFirst ==
    chkPc = "done" =>
        /\ chkTrace \in {<<>>, <<"rdap">>, <<"whois">>, <<"rdap", "whois">>}
        /\ ChkRDAPAnswers =>
              /\ chkTrace = <<"rdap">>
              /\ chkInfo.QueryMethod = "rdap"
              /\ chkInfo.Status # StatusError
              /\ chkInfo = ParseRDAPResponse(ChkName, QueryRDAP(ChkName, chkNet.rdap).resp)
        /\ (\E i \in 1..Len(chkTrace) : chkTrace[i] = "whois") => ~ChkRDAPAnswers

\* C7 witness: an RDAP answer was returned and WHOIS was never queried
C7_Witness ==
    /\ chkPc = "done"
    /\ chkTrace = <<"rdap">>
    /\ chkInfo.Status = StatusRegistered
    /\ chkNet.whois.fail = "none"

\* C8: when the RDAP attempt errors and the WHOIS fallback fails too, the
\* returned DomainInfo has status error and its message reports that both
\* protocols failed.
C8_BothFailedMessage ==
    (chkPc = "done" /\ ChkTLD # <<>> /\ ~ChkRDAPAnswers /\ ChkWhoisFails) =>
        /\ chkInfo.Status = StatusError
        /\ chkInfo.ErrorMessage = MsgBothFailed

\* C9: CheckDomain always returns a DomainInfo, never nil, and its
\* error_message is non-empty exactly when its status is error.
C9_AlwaysInfo ==
    chkPc = "done" =>
        /\ chkInfo # NilInfo
        /\ chkInfo.Status \in DomainStatus
        /\ (chkInfo.ErrorMessage # "") <=> (chkInfo.Status = StatusError)

\* C9 witness: both attempts were made and failed, and a DomainInfo came back
C9_Witness ==
    /\ chkPc = "done"
    /\ chkTrace = <<"rdap", "whois">>
    /\ chkInfo.Status = StatusError
    /\ chkInfo.ErrorMessage # ""

-----------------------------------------------------------------------------
(* SpecBatch: one call of DomainChecker.CheckDomains, src/unnamed/part_003.   *)
(* The caller and the worker goroutines are separate processes; every        *)
(* interleaving of their steps is a completion order.                        *)

MaxDomains == 2     \* longest domain list of a CheckDomains call
MaxLimit   == 2     \* largest config.Monitor.ConcurrentLimit

B_C == <<"b", ".", "c">>

BatchNames == {A_C, B_C}

\* Networks that make CheckDomain return available, registered and error.
NetAvailable ==
    [rdap  |-> HTTPExchange("none", 404, FALSE, 0, <<>>, NoTime),
     whois |-> TCPExchange("dial", WhoisText({}, NoTime))]
NetRegistered ==
    [rdap  |-> HTTPExchange("none", 200, TRUE, 0, <<"ACTIVE">>, NoTime),
     whois |-> TCPExchange("dial", WhoisText({}, NoTime))]
NetDown ==
    [rdap  |-> HTTPExchange("do", 0, FALSE, 0, <<>>, NoTime),
     whois |-> TCPExchange("dial", WhoisText({}, NoTime))]

BatchNets == {NetAvailable, NetRegistered, NetDown}

RECURSIVE SeqsUpTo(_, _)
SeqsUpTo(S, n) ==
    IF n = 0 THEN {<<>>}
    ELSE LET shorter == SeqsUpTo(S, n - 1)
         IN  shorter \cup { Append(q, x) : q \in shorter, x \in S }

\* one worker for every domain, whatever the limit
WorkerCount_PerDomain(limit, n) == n

\* workerCount := ConcurrentLimit; if workerCount > len(domains) { workerCount = len(domains) }
WorkerCount(limit, n) == IF limit > n THEN n ELSE limit

\* results[result.index] = result.info   (i is the collecting loop's counter)
PlaceResult_ArrivalOrder(res, result, i) == [res EXCEPT ![i + 1] = result.info]

PlaceResult(res, result, i) == [res EXCEPT ![result.index] = result.info]

CdInit ==
    /\ cdPc = "start"
    /\ cdDomains \in SeqsUpTo(BatchNames, MaxDomains)
    /\ cdLimit \in 1..MaxLimit
    /\ jobs = <<>>
    /\ jobsClosed = FALSE
    /\ results_chan = <<>>
    /\ results = [i \in 1..Len(cdDomains) |-> NilInfo]
    /\ workers = <<>>
    /\ cdSent = 0
    /\ cdCollected = 0
    /\ checked = [i \in 1..Len(cdDomains) |-> <<>>]
    /\ cdOrder = <<>>

\* for i := 0; i < workerCount; i++ { go func() {...}() }
CdSpawn ==
    /\ cdPc = "start"
    /\ workers' = [w \in 1..WorkerCount(cdLimit, Len(cdDomains)) |->
                      [pc |-> "recv", job |-> [index |-> 0, domain |-> <<>>]]]
    /\ cdPc' = "send"
    /\ UNCHANGED <<cdDomains, cdLimit, jobs, jobsClosed, results_chan, results,
                   cdSent, cdCollected, checked, cdOrder>>
    /\ UNCHANGED <<chkVars, monVars, nmVars, extVars>>

\* jobs <- job{i, domain}: the channel holds len(domains) jobs, the send never blocks
CdSendJob ==
    /\ cdPc = "send"
    /\ cdSent < Len(cdDomains)
    /\ Len(jobs) < Len(cdDomains)
    /\ jobs' = Append(jobs, [index |-> cdSent + 1, domain |-> cdDomains[cdSent + 1]])
    /\ cdSent' = cdSent + 1
    /\ UNCHANGED <<cdPc, cdDomains, cdLimit, jobsClosed, results_chan, results,
                   workers, cdCollected, checked, cdOrder>>
    /\ UNCHANGED <<chkVars, monVars, nmVars, extVars>>

\* close(jobs)
CdCloseJobs ==
    /\ cdPc = "send"
    /\ cdSent = Len(cdDomains)
    /\ jobsClosed' = TRUE
    /\ cdPc' = "collect"
    /\ UNCHANGED <<cdDomains, cdLimit, jobs, results_chan, results, workers,
                   cdSent, cdCollected, checked, cdOrder>>
    /\ UNCHANGED <<chkVars, monVars, nmVars, extVars>>

\* result := <-results_chan; results[result.index] = result.info
CdCollect ==
    /\ cdPc = "collect"
    /\ cdCollected < Len(cdDomains)
    /\ results_chan # <<>>
    /\ results' = PlaceResult(results, Head(results_chan), cdCollected)
    /\ results_chan' = Tail(results_chan)
    /\ cdCollected' = cdCollected + 1
    /\ cdOrder' = Append(cdOrder, Head(results_chan).index)
    /\ UNCHANGED <<cdPc, cdDomains, cdLimit, jobs, jobsClosed, workers, cdSent, checked>>
    /\ UNCHANGED <<chkVars, monVars, nmVars, extVars>>

\* return results
CdReturn ==
    /\ cdPc = "collect"
    /\ cdCollected = Len(cdDomains)
    /\ cdPc' = "done"
    /\ UNCHANGED <<cdDomains, cdLimit, jobs, jobsClosed, results_chan, results,
                   workers, cdSent, cdCollected, checked, cdOrder>>
    /\ UNCHANGED <<chkVars, monVars, nmVars, extVars>>

\* for j := range jobs: take the next job, or leave the loop once the channel
\* is closed and drained
WorkerRecv(w) ==
    /\ workers[w].pc = "recv"
    /\ \/ /\ jobs # <<>>
          /\ workers' = [workers EXCEPT ![w] = [pc |-> "check", job |-> Head(jobs)]]
          /\ jobs' = Tail(jobs)
       \/ /\ jobs = <<>>
          /\ jobsClosed
          /\ workers' = [workers EXCEPT ![w].pc = "exit"]
          /\ jobs' = jobs
    /\ UNCHANGED <<cdPc, cdDomains, cdLimit, jobsClosed, results_chan, results,
                   cdSent, cdCollected, checked, cdOrder>>
    /\ UNCHANGED <<chkVars, monVars, nmVars, extVars>>

\* a worker that keeps its job and checks it again when the check failed
WorkerCheck_RetryOnError(w) ==
    /\ workers[w].pc = "check"
    /\ Len(results_chan) < Len(cdDomains)
    /\ \E net \in BatchNets :
          LET j    == workers[w].job
              info == CheckDomain(j.domain, net, 0)
          IN  /\ checked' = [checked EXCEPT ![j.index] = Append(@, info)]
              /\ IF info.Status = StatusError /\ Len(checked[j.index]) = 0
                 THEN UNCHANGED <<results_chan, workers>>
                 ELSE /\ results_chan' =
                            Append(results_chan, [index |-> j.index, info |-> info])
                      /\ workers' = [workers EXCEPT ![w].pc = "recv"]
    /\ UNCHANGED <<cdPc, cdDomains, cdLimit, jobs, jobsClosed, results, cdSent,
                   cdCollected, cdOrder>>
    /\ UNCHANGED <<chkVars, monVars, nmVars, extVars>>

\* info := d.CheckDomain(j.domain); results_chan <- {j.index, info}
\* (the result channel holds len(domains) results, the send never blocks)
WorkerCheck(w) ==
    /\ workers[w].pc = "check"
    /\ Len(results_chan) < Len(cdDomains)
    /\ \E net \in BatchNets :
          LET j    == workers[w].job
              info == CheckDomain(j.domain, net, 0)
          IN  /\ results_chan' = Append(results_chan, [index |-> j.index, info |-> info])
              /\ checked' = [checked EXCEPT ![j.index] = Append(@, info)]
    /\ workers' = [workers EXCEPT ![w].pc = "recv"]
    /\ UNCHANGED <<cdPc, cdDomains, cdLimit, jobs, jobsClosed, results, cdSent,
                   cdCollected, cdOrder>>
    /\ UNCHANGED <<chkVars, monVars, nmVars, extVars>>

SpecBatchInit == CdInit /\ chkIdle /\ monIdle /\ nmIdle /\ extIdle

SpecBatchNext ==
    \/ CdSpawn
    \/ CdSendJob
    \/ CdCloseJobs
    \/ CdCollect
    \/ CdReturn
    \/ \E w \in DOMAIN workers : WorkerRecv(w)
    \/ \E w \in DOMAIN workers : WorkerCheck(w)

SpecBatch == SpecBatchInit /\ [][SpecBatchNext]_vars

\* C1: when CheckDomains returns, the slice is as long as the input and its
\* element i is the DomainInfo that CheckDomain returned for input i (for the
\* name of input i), whatever the order in which the workers finished.
C1_IndexAligned ==
    cdPc = "done" =>
        /\ Len(results) = Len(cdDomains)
        /\ \A i \in 1..Len(cdDomains) :
              /\ results[i] # NilInfo
              /\ results[i].Name = ToLower(TrimSpace(cdDomains[i]))
              /\ checked[i] # <<>>
              /\ results[i] = checked[i][Len(checked[i])]

\* C1 witness: CheckDomains returned although the worker of the second input
\* delivered its result before the worker of the first one
C1_Witness ==
    /\ cdPc = "done"
    /\ cdOrder = <<2, 1>>
    /\ cdDomains[1] # cdDomains[2]
    /\ results[1].Status # results[2].Status

-----------------------------------------------------------------------------
(* SpecNotify: the NotificationManager, src/notification/notifier.go.        *)
(* SendNotification is called by one goroutine, handleNotifications of main; *)
(* the dispatcher, Stop and the clock run beside it.                         *)

QueueCap    == 2     \* capacity of nm.queue in the model (1000 in the code)
DedupWindow == 24    \* 24*time.Hour

NmEvent(type, domain, status) == [Type |-> type, Domain |-> domain, Status |-> status]

NmEvents ==
    { NmEvent("status_change", A_C, StatusAvailable),
      NmEvent("status_change", A_C, StatusRegistered),
      NmEvent("available", A_C, StatusAvailable) }

\* the instants at which the manager's clock is read
NmInstants == {0, 1, 23, 24, 25, 47, 48}

NotifySenders == {"handleNotifications"}

\* a Go map read: the value under key k, or none when the key is absent
MapGet(m, k, none) == IF k \in DOMAIN m THEN m[k] ELSE none

MapPut(m, k, v) == [x \in DOMAIN m \cup {k} |-> IF x = k THEN v ELSE m[x]]

MapDelete(m, k) == [x \in DOMAIN m \ {k} |-> m[x]]

\* shouldSendNotification with the window test turned the other way at the boundary
shouldSendNotification_Inclusive(hist, domain, status, t) ==
    ~ /\ domain \in DOMAIN hist
      /\ status \in DOMAIN hist[domain]
      /\ t - hist[domain][status] <= DedupWindow

shouldSendNotification(hist, domain, status, t) ==
    ~ /\ domain \in DOMAIN hist
      /\ status \in DOMAIN hist[domain]
      /\ t - hist[domain][status] < DedupWindow

recordNotification(hist, domain, status, t) ==
    MapPut(hist, domain, MapPut(MapGet(hist, domain, <<>>), status, t))

NmInit ==
    /\ queue = <<>>
    /\ queueClosed = FALSE
    /\ enabled = TRUE
    /\ sentHistory = <<>>
    /\ nmNow = 0
    /\ senders = [s \in NotifySenders |-> [pc |-> "idle", event |-> NmEvent("", <<>>, "")]]
    /\ lastSend = [event |-> NmEvent("", <<>>, ""), had |-> FALSE, within |-> FALSE,
                   room |-> TRUE, outcome |-> "none"]
    /\ recorded = <<>>

\* SendNotification(event): if !nm.enabled { return }
NmSendBegin(s, e) ==
    /\ senders[s].pc = "idle"
    /\ IF ~enabled
       THEN /\ lastSend' = [event |-> e, had |-> <<e.Domain, e.Status>> \in DOMAIN recorded,
                            within |-> FALSE, room |-> TRUE, outcome |-> "disabled"]
            /\ UNCHANGED senders
       ELSE /\ senders' = [senders EXCEPT ![s] = [pc |-> "dedup", event |-> e]]
            /\ lastSend' = [event |-> e, had |-> FALSE, within |-> FALSE,
                            room |-> TRUE, outcome |-> "pending"]
    /\ UNCHANGED <<queue, queueClosed, enabled, sentHistory, nmNow, recorded>>
    /\ UNCHANGED <<chkVars, cdVars, monVars, extVars>>

\* if event.Type == "status_change" && !nm.shouldSendNotification(...) { return }
NmSendDedup(s) ==
    /\ senders[s].pc = "dedup"
    /\ LET e   == senders[s].event
           key == <<e.Domain, e.Status>>
           had == key \in DOMAIN recorded
           within == had /\ nmNow - recorded[key] < DedupWindow
       IN  IF e.Type = "status_change"
              /\ ~shouldSendNotification(sentHistory, e.Domain, e.Status, nmNow)
           THEN /\ senders' = [senders EXCEPT ![s].pc = "idle"]
                /\ lastSend' = [event |-> e, had |-> had, within |-> within,
                                room |-> TRUE, outcome |-> "duplicate"]
           ELSE /\ senders' = [senders EXCEPT ![s].pc = "select"]
                /\ lastSend' = [event |-> e, had |-> had, within |-> within,
                                room |-> TRUE, outcome |-> "pending"]
    /\ UNCHANGED <<queue, queueClosed, enabled, sentHistory, nmNow, recorded>>
    /\ UNCHANGED <<chkVars, cdVars, monVars, extVars>>

\* SendNotification recording a status_change event that the full queue refused
NmSendSelect_RecordOnFull(s) ==
    /\ senders[s].pc = "select"
    /\ LET e == senders[s].event
       IN  IF queueClosed
           THEN /\ senders' = [senders EXCEPT ![s].pc = "idle"]
                /\ lastSend' = [lastSend EXCEPT !.outcome = "panic"]
                /\ UNCHANGED queue
           ELSE IF Len(queue) < QueueCap
           THEN /\ queue' = Append(queue, e)
                /\ IF e.Type = "status_change"
                   THEN /\ senders' = [senders EXCEPT ![s].pc = "record"]
                        /\ UNCHANGED lastSend
                   ELSE /\ senders' = [senders EXCEPT ![s].pc = "idle"]
                        /\ lastSend' = [lastSend EXCEPT !.outcome = "enqueued"]
           ELSE /\ senders' = [senders EXCEPT ![s].pc =
                                  IF e.Type = "status_change" THEN "record" ELSE "idle"]
                /\ lastSend' = [lastSend EXCEPT !.outcome = "full", !.room = FALSE]
                /\ UNCHANGED queue
    /\ UNCHANGED <<queueClosed, enabled, sentHistory, nmNow, recorded>>
    /\ UNCHANGED <<chkVars, cdVars, monVars, extVars>>

\* select { case nm.queue <- event: ... default: ... }
\* A send on a closed channel panics; a full queue takes the default branch.
NmSendSelect(s) ==
    /\ senders[s].pc = "select"
    /\ LET e == senders[s].event
       IN  IF queueClosed
           THEN /\ senders' = [senders EXCEPT ![s].pc = "idle"]
                /\ lastSend' = [lastSend EXCEPT !.outcome = "panic"]
                /\ UNCHANGED queue
           ELSE IF Len(queue) < QueueCap
           THEN /\ queue' = Append(queue, e)
                /\ IF e.Type = "status_change"
                   THEN /\ senders' = [senders EXCEPT ![s].pc = "record"]
                        /\ UNCHANGED lastSend
                   ELSE /\ senders' = [senders EXCEPT ![s].pc = "idle"]
                        /\ lastSend' = [lastSend EXCEPT !.outcome = "enqueued"]
           ELSE /\ senders' = [senders EXCEPT ![s].pc = "idle"]
                /\ lastSend' = [lastSend EXCEPT !.outcome = "full", !.room = FALSE]
                /\ UNCHANGED queue
    /\ UNCHANGED <<queueClosed, enabled, sentHistory, nmNow, recorded>>
    /\ UNCHANGED <<chkVars, cdVars, monVars, extVars>>

\* nm.recordNotification(event.Domain, event.Status)
NmSendRecord(s) ==
    /\ senders[s].pc = "record"
    /\ LET e == senders[s].event
       IN  /\ sentHistory' = recordNotification(sentHistory, e.Domain, e.Status, nmNow)
           /\ recorded' = MapPut(recorded, <<e.Domain, e.Status>>, nmNow)
    /\ senders' = [senders EXCEPT ![s].pc = "idle"]
    /\ lastSend' = [lastSend EXCEPT !.outcome = "enqueued"]
    /\ UNCHANGED <<queue, queueClosed, enabled, nmNow>>
    /\ UNCHANGED <<chkVars, cdVars, monVars, extVars>>

\* processNotifications: for event := range nm.queue { nm.sendToAllNotifiers(event) }
NmDispatch ==
    /\ queue # <<>>
    /\ queue' = Tail(queue)
    /\ UNCHANGED <<queueClosed, enabled, sentHistory, nmNow, senders, lastSend, recorded>>
    /\ UNCHANGED <<chkVars, cdVars, monVars, extVars>>

\* Stop: nm.enabled = false
NmStopDisable ==
    /\ enabled
    /\ enabled' = FALSE
    /\ UNCHANGED <<queue, queueClosed, sentHistory, nmNow, senders, lastSend,
                   recorded>>
    /\ UNCHANGED <<chkVars, cdVars, monVars, extVars>>

\* Stop: close(nm.queue)
NmStopClose ==
    /\ ~enabled
    /\ ~queueClosed
    /\ queueClosed' = TRUE
    /\ UNCHANGED <<queue, enabled, sentHistory, nmNow, senders, lastSend,
                   recorded>>
    /\ UNCHANGED <<chkVars, cdVars, monVars, extVars>>

\* time passes
NmTick(t) ==
    /\ t > nmNow
    /\ nmNow' = t
    /\ UNCHANGED <<queue, queueClosed, enabled, sentHistory, senders, lastSend,
                   recorded>>
    /\ UNCHANGED <<chkVars, cdVars, monVars, extVars>>

SpecNotifyInit == NmInit /\ chkIdle /\ cdIdle /\ monIdle /\ extIdle

SpecNotifyNext ==
    \/ \E s \in NotifySenders, e \in NmEvents : NmSendBegin(s, e)
    \/ \E s \in NotifySenders : NmSendDedup(s)
    \/ \E s \in NotifySenders : NmSendSelect(s)
    \/ \E s \in NotifySenders : NmSendRecord(s)
    \/ NmDispatch
    \/ NmStopDisable
    \/ NmStopClose
    \/ \E t \in NmInstants : NmTick(t)

SpecNotify == SpecNotifyInit /\ [][SpecNotifyNext]_vars

\* the last SendNotification call carried a status_change event and has returned
NmStatusChangeReturned ==
    /\ lastSend.event.Type = "status_change"
    /\ lastSend.outcome \notin {"none", "pending"}

\* C6 as stated: while the manager runs, a status_change event whose key had a
\* send recorded less than 24h before is dropped, and the first one after the
\* window is enqueued again.
C6_Original ==
    (enabled /\ NmStatusChangeReturned) =>
        /\ lastSend.within => lastSend.outcome = "duplicate"
        /\ (lastSend.had /\ ~lastSend.within) => lastSend.outcome = "enqueued"

\* C6 amended: a status_change event whose key had a send recorded less than
\* 24h before is never enqueued; no event is dropped as a duplicate outside
\* that window; while the manager runs, an event outside the window is enqueued
\* when the queue has room and dropped when it is full; and every recorded send
\* is in sentHistory with its time.
C6_Dedup24h ==
    /\ NmStatusChangeReturned =>
          /\ lastSend.within => lastSend.outcome \in {"duplicate", "disabled"}
          /\ lastSend.outcome = "duplicate" => lastSend.within
          /\ (enabled /\ ~lastSend.within /\ lastSend.room) => lastSend.outcome = "enqueued"
          /\ (enabled /\ ~lastSend.within /\ ~lastSend.room) => lastSend.outcome = "full"
    /\ \A key \in DOMAIN recorded :
          /\ key[1] \in DOMAIN sentHistory
          /\ key[2] \in DOMAIN sentHistory[key[1]]
          /\ sentHistory[key[1]][key[2]] = recorded[key]

\* C6 witness: an event of a key with a recorded send arrived after the window
\* and was enqueued again
C6_Witness ==
    /\ NmStatusChangeReturned
    /\ lastSend.had
    /\ ~lastSend.within
    /\ lastSend.outcome = "enqueued"
    /\ nmNow - recorded[<<lastSend.event.Domain, lastSend.event.Status>>] = 0
    /\ nmNow = 24

-----------------------------------------------------------------------------
(* storage.Cache, src/storage/cache.go.  data is the map c.data; time in      *)
(* minutes.                                                                  *)

CacheMaxSize == 1000    \* NewCache: maxSize

CacheItem(value, expiresAt, accessTime) ==
    [Data |-> value, ExpiresAt |-> expiresAt, AccessTime |-> accessTime]

\* evictLRU, had it taken the item that was written first
evictLRU_InsertionOrder(data) ==
    IF DOMAIN data = {} THEN {data}
    ELSE LET oldest == { k \in DOMAIN data :
                           \A j \in DOMAIN data : data[k].ExpiresAt <= data[j].ExpiresAt }
         IN  { IF k # <<>> THEN MapDelete(data, k) ELSE data : k \in oldest }

\* evictLRU: the maps that can result.  The loop ranges over the map in Go's
\* unspecified order and keeps the first key among those with the oldest
\* AccessTime; the empty key is never deleted.
evictLRU(data) ==
    IF DOMAIN data = {} THEN {data}
    ELSE LET oldest == { k \in DOMAIN data :
                           \A j \in DOMAIN data : data[k].AccessTime <= data[j].AccessTime }
         IN  { IF k # <<>> THEN MapDelete(data, k) ELSE data : k \in oldest }

\* SetWithDuration, had it made room only once the map held more than maxSize
SetWithDuration_EvictAbove(data, maxSize, key, value, duration, t) ==
    LET room == IF Cardinality(DOMAIN data) > maxSize THEN evictLRU(data) ELSE {data}
    IN  { MapPut(d, key, CacheItem(value, t + duration, t)) : d \in room }

\* SetWithDuration: the maps that can result
SetWithDuration(data, maxSize, key, value, duration, t) ==
    LET room == IF Cardinality(DOMAIN data) >= maxSize THEN evictLRU(data) ELSE {data}
    IN  { MapPut(d, key, CacheItem(value, t + duration, t)) : d \in room }

\* Get, had it taken an item for expired from the instant ExpiresAt on
CacheGet_ExpiredAtDeadline(data, key, t) ==
    IF key \notin DOMAIN data THEN [data |-> data, value |-> NilInfo]
    ELSE IF t >= data[key].ExpiresAt
        THEN [data |-> MapDelete(data, key), value |-> NilInfo]
    ELSE [data |-> [data EXCEPT ![key].AccessTime = t], value |-> data[key].Data]

\* Get, had it left an expired item in the map
CacheGet_KeepExpired(data, key, t) ==
    IF key \notin DOMAIN data THEN [data |-> data, value |-> NilInfo]
    ELSE IF t > data[key].ExpiresAt
        THEN [data |-> data, value |-> NilInfo]
    ELSE [data |-> [data EXCEPT ![key].AccessTime = t], value |-> data[key].Data]

\* Get: the map afterwards and the value returned (NilInfo for nil)
CacheGet(data, key, t) ==
    IF key \notin DOMAIN data THEN [data |-> data, value |-> NilInfo]
    ELSE IF t > data[key].ExpiresAt
        THEN [data |-> MapDelete(data, key), value |-> NilInfo]
    ELSE [data |-> [data EXCEPT ![key].AccessTime = t], value |-> data[key].Data]

CacheDelete(data, key) == MapDelete(data, key)

CacheClear(data) == <<>>

-----------------------------------------------------------------------------
(* Smart cache durations, src/core/status.go, in minutes.                    *)

\* the same with the two limits exclusive
getCacheDurationByExpiryDate_Strict(info, t) ==
    IF info.ExpiryDate = NoTime THEN 24 * 60
    ELSE LET untilExpiry == info.ExpiryDate - t
         IN  IF untilExpiry <= 0 THEN 6 * 60
             ELSE IF untilExpiry < 3 * 1440 THEN 6 * 60
             ELSE IF untilExpiry < 30 * 1440 THEN 12 * 60
             ELSE 24 * 60

getCacheDurationByExpiryDate(info, t) ==
    IF info.ExpiryDate = NoTime THEN 24 * 60
    ELSE LET untilExpiry == info.ExpiryDate - t     \* minutes; a day is 1440
         IN  IF untilExpiry <= 0 THEN 6 * 60
             ELSE IF untilExpiry <= 3 * 1440 THEN 6 * 60
             ELSE IF untilExpiry <= 30 * 1440 THEN 12 * 60
             ELSE 24 * 60

GetSmartCacheDuration(info, t) ==
    IF info.Status = StatusError THEN 10
    ELSE CASE info.Status = StatusPendingDelete -> 5
           [] info.Status = StatusRedemption    -> 60
           [] info.Status = StatusAvailable     -> 30
           [] info.Status = StatusExpired       -> 6 * 60
           [] info.Status = StatusRegistered    -> getCacheDurationByExpiryDate(info, t)
           [] OTHER                             -> 2 * 60

-----------------------------------------------------------------------------
(* Monitor, src/core/whois.go: change detection.                            *)

NotifCap == 1       \* capacity of m.notifications (1000 in NewMonitor)

\* fmt.Sprintf("domain:%s", domain)
cacheKey(domain) == <<"domain:">> \o domain

StatusChangeEvent(domain, old, new, t) ==
    [Domain |-> domain, OldStatus |-> old, NewStatus |-> new, Timestamp |-> t]

\* if exists && lastStatus != info.Status { select { case m.notifications <- event: default: } }
\* The channel afterwards, and whether an event was built and what became of it.
DetectChange_NoExists(ls, notif, domain, info, t) ==
    LET last  == MapGet(ls, domain, "")
        event == StatusChangeEvent(domain, last, info.Status, t)
    IN  IF last # info.Status
        THEN IF Len(notif) < NotifCap
             THEN [notifications |-> Append(notif, event), sent |-> "enqueued"]
             ELSE [notifications |-> notif, sent |-> "dropped"]
        ELSE [notifications |-> notif, sent |-> "none"]

\* the same with a send that finds room in a full channel
DetectChange_EnqueueOnFull(ls, notif, domain, info, t) ==
    LET exists == domain \in DOMAIN ls
        last   == MapGet(ls, domain, "")
        event  == StatusChangeEvent(domain, last, info.Status, t)
    IN  IF exists /\ last # info.Status
        THEN [notifications |-> Append(notif, event), sent |-> "enqueued"]
        ELSE [notifications |-> notif, sent |-> "none"]

\* the same without the comparison with the recorded status
DetectChange_NoCompare(ls, notif, domain, info, t) ==
    LET exists == domain \in DOMAIN ls
        last   == MapGet(ls, domain, "")
        event  == StatusChangeEvent(domain, last, info.Status, t)
    IN  IF exists
        THEN IF Len(notif) < NotifCap
             THEN [notifications |-> Append(notif, event), sent |-> "enqueued"]
             ELSE [notifications |-> notif, sent |-> "dropped"]
        ELSE [notifications |-> notif, sent |-> "none"]

DetectChange(ls, notif, domain, info, t) ==
    LET exists == domain \in DOMAIN ls
        last   == MapGet(ls, domain, "")
        event  == StatusChangeEvent(domain, last, info.Status, t)
    IN  IF exists /\ last # info.Status
        THEN IF Len(notif) < NotifCap
             THEN [notifications |-> Append(notif, event), sent |-> "enqueued"]
             ELSE [notifications |-> notif, sent |-> "dropped"]
        ELSE [notifications |-> notif, sent |-> "none"]

\* if info.Status != StatusError { m.lastStatus[domain] = info.Status }
UpdateLastStatus_NoGuard(ls, domain, info) == MapPut(ls, domain, info.Status)

UpdateLastStatus(ls, domain, info) ==
    IF info.Status # StatusError THEN MapPut(ls, domain, info.Status) ELSE ls

-----------------------------------------------------------------------------
(* Spec: the Monitor with its callers (the HTTP handlers and main), its      *)
(* monitorLoop goroutines and the receiver of its notification channel.      *)
(* The client has one domain request (GetDomainInfo or ForceCheck) in flight *)
(* at a time; the request runs concurrently with the monitor loops, with      *)
(* LoadDomains, Start and Stop, and with the receiver.                        *)

MaxStarts == 1      \* successful Start calls in a behaviour

MonNames == {A_C}
MonDomainLists == {<<>>, <<A_C>>}
MonNets == {NetAvailable, NetRegistered, NetDown}

MonOthers == <<chkVars, cdVars, nmVars, extVars>>

\* NewMonitor
MonInit == monIdle

\* LoadDomains: m.domains = validDomains; m.cache.Clear()
LoadDomains(list) ==
    /\ domains' = list
    /\ cache' = CacheClear(cache)
    /\ UNCHANGED <<isRunning, stopClosed, stopPanics, notifications, lastStatus,
                   lastResults, lastStatsTime, loops, fc, gd, now, starts>>
    /\ UNCHANGED MonOthers

\* The error Start returns (Nil for nil)
StartError_IgnoreEmpty(running, list) ==
    IF running THEN "already running" ELSE Nil

StartError(running, list) ==
    IF running THEN "already running"
    ELSE IF Len(list) = 0 THEN "no domains"
    ELSE Nil

\* Start, in a behaviour of at most n successful Start calls
MonStartUpTo(n) ==
    LET err == StartError(isRunning, domains)
    IN  /\ IF err # Nil
           THEN UNCHANGED <<isRunning, loops, starts>>
           ELSE /\ starts < n
                /\ isRunning' = TRUE
                /\ starts' = starts + 1
                /\ loops' = MapPut(loops, starts + 1,
                                   [pc |-> "first", domains |-> <<>>, results |-> <<>>,
                                    i |-> 0])
        /\ UNCHANGED <<domains, stopClosed, stopPanics, notifications, lastStatus,
                       lastResults, lastStatsTime, cache, fc, gd, now>>
        /\ UNCHANGED MonOthers

MonStart == MonStartUpTo(MaxStarts)

\* Stop; close(m.stopCh) of a closed channel panics after isRunning is cleared
MonStop ==
    /\ IF ~isRunning
       THEN UNCHANGED <<isRunning, stopClosed, stopPanics>>
       ELSE /\ isRunning' = FALSE
            /\ IF stopClosed
               THEN stopPanics' = stopPanics + 1 /\ UNCHANGED stopClosed
               ELSE stopClosed' = TRUE /\ UNCHANGED stopPanics
    /\ UNCHANGED <<domains, notifications, lastStatus, lastResults, lastStatsTime,
                   cache, loops, fc, gd, now, starts>>
    /\ UNCHANGED MonOthers

\* checkAllDomains up to the return of CheckDomains: the domains are copied
\* and each is checked against what the network answers for it
BatchBegin(id) ==
    IF Len(domains) = 0
    THEN loops' = [loops EXCEPT ![id].pc = "select"]
    ELSE \E nets \in [1..Len(domains) -> MonNets] :
            loops' = [loops EXCEPT ![id] =
                        [pc |-> "process", domains |-> domains,
                         results |-> [i \in 1..Len(domains) |->
                                         CheckDomain(domains[i], nets[i], now)],
                         i |-> 1]]

\* monitorLoop: the immediate first check
LoopFirst(id) ==
    /\ id \in DOMAIN loops
    /\ loops[id].pc = "first"
    /\ BatchBegin(id)
    /\ UNCHANGED <<domains, isRunning, stopClosed, stopPanics, notifications,
                   lastStatus, lastResults, lastStatsTime, cache, fc, gd, now, starts>>
    /\ UNCHANGED MonOthers

\* monitorLoop: case <-ticker.C
LoopTick(id) ==
    /\ id \in DOMAIN loops
    /\ loops[id].pc = "select"
    /\ BatchBegin(id)
    /\ UNCHANGED <<domains, isRunning, stopClosed, stopPanics, notifications,
                   lastStatus, lastResults, lastStatsTime, cache, fc, gd, now, starts>>
    /\ UNCHANGED MonOthers

\* monitorLoop: case <-m.stopCh
LoopStopped(id) ==
    /\ id \in DOMAIN loops
    /\ loops[id].pc = "select"
    /\ stopClosed
    /\ loops' = [loops EXCEPT ![id].pc = "exited"]
    /\ UNCHANGED <<domains, isRunning, stopClosed, stopPanics, notifications,
                   lastStatus, lastResults, lastStatsTime, cache, fc, gd, now, starts>>
    /\ UNCHANGED MonOthers

\* checkAllDomains: one pass of the loop over the results.  An error result is
\* skipped; any other goes through the locked section (change detection,
\* lastStatus, cache).
LoopProcess(id) ==
    /\ id \in DOMAIN loops
    /\ loops[id].pc = "process"
    /\ LET l      == loops[id]
           domain == l.domains[l.i]
           info   == l.results[l.i]
           next   == IF l.i = Len(l.results)
                     THEN [l EXCEPT !.pc = "store"]
                     ELSE [l EXCEPT !.i = l.i + 1]
       IN  /\ loops' = [loops EXCEPT ![id] = next]
           /\ IF info.Status = StatusError
              THEN UNCHANGED <<notifications, lastStatus, cache>>
              ELSE LET d == DetectChange(lastStatus, notifications, domain, info, now)
                   IN  /\ notifications' = d.notifications
                       /\ lastStatus' = UpdateLastStatus(lastStatus, domain, info)
                       /\ IF info.Status # StatusError
                          THEN cache' \in SetWithDuration(cache, CacheMaxSize,
                                              cacheKey(domain), info,
                                              GetSmartCacheDuration(info, now), now)
                          ELSE UNCHANGED cache
    /\ UNCHANGED <<domains, isRunning, stopClosed, stopPanics, lastResults,
                   lastStatsTime, fc, gd, now, starts>>
    /\ UNCHANGED MonOthers

\* checkAllDomains: m.lastResults = results; m.lastStatsTime = time.Now()
LoopStore(id) ==
    /\ id \in DOMAIN loops
    /\ loops[id].pc = "store"
    /\ lastResults' = loops[id].results
    /\ lastStatsTime' = now
    /\ loops' = [loops EXCEPT ![id] = [pc |-> "select", domains |-> <<>>,
                                       results |-> <<>>, i |-> 0]]
    /\ UNCHANGED <<domains, isRunning, stopClosed, stopPanics, notifications,
                   lastStatus, cache, fc, gd, now, starts>>
    /\ UNCHANGED MonOthers

\* ForceCheck: m.cache.Delete(cacheKey)
FcBegin(domain) ==
    /\ fc.pc = "idle" /\ gd.pc = "idle"
    /\ cache' = CacheDelete(cache, cacheKey(domain))
    /\ fc' = [pc |-> "check", domain |-> domain, info |-> NilInfo]
    /\ UNCHANGED <<domains, isRunning, stopClosed, stopPanics, notifications,
                   lastStatus, lastResults, lastStatsTime, loops, gd, now, starts>>
    /\ UNCHANGED MonOthers

\* ForceCheck: CheckDomain and the cache write
FcCheck ==
    /\ fc.pc = "check"
    /\ \E net \in MonNets :
          LET info == CheckDomain(fc.domain, net, now)
          IN  /\ cache' \in SetWithDuration(cache, CacheMaxSize, cacheKey(fc.domain), info,
                                IF info.Status # StatusError
                                THEN GetSmartCacheDuration(info, now) ELSE 10,
                                now)
              /\ fc' = [pc |-> "detect", domain |-> fc.domain, info |-> info]
    /\ UNCHANGED <<domains, isRunning, stopClosed, stopPanics, notifications,
                   lastStatus, lastResults, lastStatsTime, loops, gd, now, starts>>
    /\ UNCHANGED MonOthers

\* ForceCheck: the locked section (change detection, lastStatus)
FcDetect ==
    /\ fc.pc = "detect"
    /\ LET d == DetectChange(lastStatus, notifications, fc.domain, fc.info, now)
       IN  /\ notifications' = d.notifications
           /\ lastStatus' = UpdateLastStatus(lastStatus, fc.domain, fc.info)
    /\ fc' = [pc |-> "idle"]
    /\ UNCHANGED <<domains, isRunning, stopClosed, stopPanics, lastResults,
                   lastStatsTime, cache, loops, gd, now, starts>>
    /\ UNCHANGED MonOthers

\* GetDomainInfo: m.cache.Get(cacheKey); a hit returns the cached info
GdBegin(domain) ==
    /\ gd.pc = "idle" /\ fc.pc = "idle"
    /\ LET g == CacheGet(cache, cacheKey(domain), now)
       IN  /\ cache' = g.data
           /\ gd' = IF g.value # NilInfo
                    THEN [pc |-> "idle"]
                    ELSE [pc |-> "check", domain |-> domain, info |-> NilInfo]
    /\ UNCHANGED <<domains, isRunning, stopClosed, stopPanics, notifications,
                   lastStatus, lastResults, lastStatsTime, loops, fc, now, starts>>
    /\ UNCHANGED MonOthers

\* GetDomainInfo after a miss: CheckDomain and the cache write
GdCheck ==
    /\ gd.pc = "check"
    /\ \E net \in MonNets :
          LET info == CheckDomain(gd.domain, net, now)
          IN  /\ cache' \in SetWithDuration(cache, CacheMaxSize, cacheKey(gd.domain), info,
                                IF info.Status # StatusError
                                THEN GetSmartCacheDuration(info, now) ELSE 10,
                                now)
              /\ gd' = [pc |-> "idle"]
    /\ UNCHANGED <<domains, isRunning, stopClosed, stopPanics, notifications,
                   lastStatus, lastResults, lastStatsTime, loops, fc, now, starts>>
    /\ UNCHANGED MonOthers

\* handleNotifications: for event := range monitor.GetNotifications()
ReceiveNotification ==
    /\ notifications # <<>>
    /\ notifications' = Tail(notifications)
    /\ UNCHANGED <<domains, isRunning, stopClosed, stopPanics, lastStatus,
                   lastResults, lastStatsTime, cache, loops, fc, gd, now, starts>>
    /\ UNCHANGED MonOthers

Init == chkIdle /\ cdIdle /\ nmIdle /\ extIdle /\ MonInit

Next ==
    \/ \E list \in MonDomainLists : LoadDomains(list)
    \/ MonStart
    \/ MonStop
    \/ \E id \in 1..MaxStarts : LoopFirst(id)
    \/ \E id \in 1..MaxStarts : LoopTick(id)
    \/ \E id \in 1..MaxStarts : LoopStopped(id)
    \/ \E id \in 1..MaxStarts : LoopProcess(id)
    \/ \E id \in 1..MaxStarts : LoopStore(id)
    \/ \E domain \in MonNames : FcBegin(domain)
    \/ FcCheck
    \/ FcDetect
    \/ \E domain \in MonNames : GdBegin(domain)
    \/ GdCheck
    \/ ReceiveNotification

Spec == Init /\ [][Next]_vars

-----------------------------------------------------------------------------
(* Steps of Spec, recognised by what they change.                            *)

\* ForceCheck's locked section handles the result fc.info of fc.domain
ForceHandles == fc.pc = "detect" /\ fc'.pc = "idle"

\* a pass of checkAllDomains' loop handles results[i] of domains[i]
BatchHandles(id) == loops[id].pc = "process" /\ loops'[id] # loops[id]
BatchDomain(id) == loops[id].domains[loops[id].i]
BatchStatus(id) == loops[id].results[loops[id].i].Status

\* GetDomainInfo handles the result of its check (the one it caches)
GetHandles == gd.pc = "check" /\ gd'.pc = "idle"
GetStatus == cache'[cacheKey(gd.domain)].Data.Status

\* Rule(domain, status) is true of every step in which one of the two paths
\* with change detection handles a result
DetectSteps(Rule(_, _)) ==
    /\ ForceHandles => Rule(fc.domain, fc.info.Status)
    /\ \A id \in DOMAIN loops : BatchHandles(id) => Rule(BatchDomain(id), BatchStatus(id))

ErrorKeeps(domain, status) == status = StatusError => lastStatus' = lastStatus

Records(domain, status) ==
    status # StatusError /\ lastStatus' = MapPut(lastStatus, domain, status)

\* C2: lastStatus never holds error; a step that handles an error result, on
\* the batch, ForceCheck or GetDomainInfo path, leaves lastStatus as it was;
\* and lastStatus changes only by recording a non-error result for its domain.
C2_ErrorKeepsLastStatus ==
    /\ [](\A d \in DOMAIN lastStatus : lastStatus[d] # StatusError)
    /\ [][ /\ DetectSteps(ErrorKeeps)
           /\ GetHandles => ErrorKeeps(gd.domain, GetStatus)
           /\ lastStatus' # lastStatus =>
                \/ ForceHandles /\ Records(fc.domain, fc.info.Status)
                \/ \E id \in DOMAIN loops :
                      BatchHandles(id) /\ Records(BatchDomain(id), BatchStatus(id)) ]_vars

\* C2 witness: an error result of a.c has been handled (it is the cached
\* result, no call is in progress) and a.c's last status is still available
C2_Witness ==
    /\ fc.pc = "idle" /\ gd.pc = "idle"
    /\ cacheKey(A_C) \in DOMAIN cache
    /\ cache[cacheKey(A_C)].Data.Status = StatusError
    /\ A_C \in DOMAIN lastStatus
    /\ lastStatus[A_C] = StatusAvailable

\* C3: no event with NewStatus = error is ever in the notification channel
C3_NoErrorEvent ==
    \A i \in 1..Len(notifications) : notifications[i].NewStatus # StatusError

EventExactlyOnChange(domain, status) ==
    LET changed == /\ status # StatusError
                   /\ domain \in DOMAIN lastStatus
                   /\ lastStatus[domain] # status
        event   == StatusChangeEvent(domain, MapGet(lastStatus, domain, ""), status, now)
    IN  /\ notifications' # notifications => changed
        /\ (changed /\ Len(notifications) < NotifCap)
              => notifications' = Append(notifications, event)
        /\ notifications' # notifications =>
              /\ notifications' = Append(notifications, event)
              /\ event.OldStatus # event.NewStatus
              /\ domain \in DOMAIN lastStatus'
              /\ lastStatus'[domain] = status

\* C4: a step of a change-detecting path enqueues an event only when its result
\* is a non-error status that differs from the recorded one, and, the channel
\* having room, always then; the event carries the recorded status as old and
\* the result as new, the two differ, and lastStatus holds the new status after.
C4_EventExactlyOnChange == [][DetectSteps(EventExactlyOnChange)]_vars

\* what C5 says of a step that handles a non-error result; full is whether a
\* change that finds the channel full still enqueues
FirstObservationRule(domain, status, full) ==
    LET event == StatusChangeEvent(domain, MapGet(lastStatus, domain, ""), status, now)
    IN  status # StatusError =>
            /\ lastStatus' = MapPut(lastStatus, domain, status)
            /\ domain \notin DOMAIN lastStatus => notifications' = notifications
            /\ (domain \in DOMAIN lastStatus /\ lastStatus[domain] # status) =>
                  IF Len(notifications) < NotifCap \/ full
                  THEN notifications' = Append(notifications, event)
                  ELSE notifications' = notifications

EnqueuesAlways(domain, status) == FirstObservationRule(domain, status, TRUE)
EnqueuesIfRoom(domain, status) == FirstObservationRule(domain, status, FALSE)

\* C5 as stated: the first non-error result of a domain is recorded without an
\* event, and a later different non-error result enqueues exactly one event.
C5_Original == [][DetectSteps(EnqueuesAlways)]_vars

\* C5 amended: the first non-error result of a domain is recorded without an
\* event; a later different non-error result is recorded and enqueues exactly
\* one event old->new if the notification channel has room, none if it is full.
C5_FirstObservation == [][DetectSteps(EnqueuesIfRoom)]_vars

\* C5 witness: a.c was first seen available, then registered: the event is in
\* the channel and registered is recorded
C5_Witness ==
    /\ notifications = <<StatusChangeEvent(A_C, StatusAvailable, StatusRegistered, 0)>>
    /\ A_C \in DOMAIN lastStatus
    /\ lastStatus[A_C] = StatusRegistered

\* C10: Start returns an error exactly when the monitor is running or has no
\* domains, and then changes nothing; a Start that returns nil sets isRunning
\* and adds exactly one monitorLoop; isRunning is cleared, and the stop channel
\* closed, only by a step from a running monitor that does both and leaves the
\* loops alone.
C10_Lifecycle ==
    /\ [](StartError(isRunning, domains) # Nil <=> (isRunning \/ Len(domains) = 0))
    /\ [][ /\ (isRunning \/ Len(domains) = 0) =>
                /\ ~(isRunning' /\ ~isRunning)
                /\ starts' = starts
                /\ DOMAIN loops' = DOMAIN loops
           /\ (starts' # starts \/ (isRunning' /\ ~isRunning)
                    \/ DOMAIN loops' # DOMAIN loops) =>
                /\ isRunning' /\ ~isRunning
                /\ starts' = starts + 1
                /\ \E id \in DOMAIN loops' \ DOMAIN loops :
                      /\ DOMAIN loops' = DOMAIN loops \cup {id}
                      /\ loops'[id].pc = "first"
                      /\ \A j \in DOMAIN loops : loops'[j] = loops[j]
                /\ UNCHANGED <<domains, stopClosed, stopPanics, notifications,
                               lastStatus, cache>>
           /\ ((~isRunning' /\ isRunning) \/ stopClosed' # stopClosed
                    \/ stopPanics' # stopPanics) =>
                /\ isRunning /\ ~isRunning'
                /\ stopClosed'
                /\ UNCHANGED <<loops, domains, starts>> ]_vars

\* C10 witness: the monitor was started and then stopped: not running, stop
\* channel closed once, its loop exited on the signal
C10_Witness ==
    /\ starts = 1
    /\ ~isRunning
    /\ stopClosed
    /\ stopPanics = 0
    /\ loops[1].pc = "exited"

-----------------------------------------------------------------------------
(* The monitor loop's batches.                                               *)

\* loop id is inside checkAllDomains with a non-empty domain list
InBatch(id) == loops[id].pc \in {"process", "store"}

\* loop id starts a batch: its immediate check or the check of a tick
BatchStarts(id) == loops[id].pc \in {"first", "select"} /\ loops'[id].pc = "process"

\* C11 (safety part): the batches of the monitor never overlap, and once the
\* stop signal has been given no loop starts a further batch.
C11_NoBatchAfterStop ==
    /\ [](\A i, j \in DOMAIN loops : (InBatch(i) /\ InBatch(j)) => i = j)
    /\ [][\A id \in DOMAIN loops : BatchStarts(id) => ~stopClosed]_vars

-----------------------------------------------------------------------------
(* SpecCache: one Cache on its own, called by any client in any order while  *)
(* time passes.  Its capacity is CacheCap; its keys are the keys the monitor *)
(* uses, one more than the capacity.                                         *)

CacheCap == 2        \* c.maxSize of this cache
CacheDuration == 2   \* c.duration, in minutes
MaxNow == 3          \* the clock stops here
MaxGets == 2         \* Get calls between two Clear calls

\* the domains a.c, aa.c, aaa.c, ...
CacheDomain(n) == [j \in 1..n |-> "a"] \o <<".", "c">>
CacheKeys == { cacheKey(CacheDomain(n)) : n \in 1..(CacheCap + 1) }
CacheValue(key) == DomainInfo(key, StatusAvailable, "rdap", "", NoTime)

\* cleanup, one pass: every expired item is deleted
CacheCleanup(data, t) ==
    [k \in { j \in DOMAIN data : ~(t > data[j].ExpiresAt) } |-> data[k]]

CacheInit ==
    /\ cache = <<>> /\ now = 0 /\ cacheCall = [op |-> "none"]
    /\ hitCount = 0 /\ missCount = 0
    /\ domains = <<>> /\ isRunning = FALSE /\ stopClosed = FALSE /\ stopPanics = 0
    /\ notifications = <<>> /\ lastStatus = <<>> /\ lastResults = <<>>
    /\ lastStatsTime = NoTime /\ loops = <<>>
    /\ fc = [pc |-> "idle"] /\ gd = [pc |-> "idle"] /\ starts = 0

CacheRest ==
    <<domains, isRunning, stopClosed, stopPanics, notifications, lastStatus,
      lastResults, lastStatsTime, loops, fc, gd, starts,
      chkVars, cdVars, nmVars, accVars, ttlVars, pureVars>>

\* Set(key, value): SetWithDuration with the default duration
CacheSet(key) ==
    /\ cache' \in SetWithDuration(cache, CacheCap, key, CacheValue(key), CacheDuration, now)
    /\ cacheCall' = [op |-> "set", key |-> key, value |-> NilInfo,
                     evicted |-> [k \in DOMAIN cache \ DOMAIN cache' |-> cache[k]]]
    /\ UNCHANGED <<now, hitCount, missCount, CacheRest>>

\* Get(key); the two counters are followed for the first MaxGets calls
\* after a Clear
CacheGetCall(key) ==
    /\ hitCount + missCount < MaxGets
    /\ LET g == CacheGet(cache, key, now)
       IN  /\ cache' = g.data
           /\ cacheCall' = [op |-> "get", key |-> key, value |-> g.value,
                            evicted |-> [k \in DOMAIN cache \ DOMAIN g.data |-> cache[k]]]
           /\ IF g.value # NilInfo
              THEN hitCount' = hitCount + 1 /\ UNCHANGED missCount
              ELSE missCount' = missCount + 1 /\ UNCHANGED hitCount
    /\ UNCHANGED <<now, CacheRest>>

\* Delete(key)
CacheDeleteCall(key) ==
    /\ cache' = CacheDelete(cache, key)
    /\ cacheCall' = [op |-> "delete", key |-> key, value |-> NilInfo, evicted |-> <<>>]
    /\ UNCHANGED <<now, hitCount, missCount, CacheRest>>

\* Clear()
CacheClearCall ==
    /\ cache' = CacheClear(cache)
    /\ cacheCall' = [op |-> "clear", key |-> <<>>, value |-> NilInfo, evicted |-> <<>>]
    /\ hitCount' = 0 /\ missCount' = 0
    /\ UNCHANGED <<now, CacheRest>>

\* the cleanup goroutine: one tick of its ticker
CacheCleanupPass ==
    /\ cache' = CacheCleanup(cache, now)
    /\ cacheCall' = [op |-> "cleanup", key |-> <<>>, value |-> NilInfo, evicted |-> <<>>]
    /\ UNCHANGED <<now, hitCount, missCount, CacheRest>>

\* a minute passes
CacheTick ==
    /\ now < MaxNow
    /\ now' = now + 1
    /\ UNCHANGED <<cache, cacheCall, hitCount, missCount, CacheRest>>

SpecCacheInit == CacheInit /\ chkIdle /\ cdIdle /\ nmIdle /\ accIdle /\ ttlIdle /\ pureIdle

SpecCacheNext ==
    \/ \E key \in CacheKeys : CacheSet(key)
    \/ \E key \in CacheKeys : CacheGetCall(key)
    \/ \E key \in CacheKeys : CacheDeleteCall(key)
    \/ CacheClearCall
    \/ CacheCleanupPass
    \/ CacheTick

SpecCache == SpecCacheInit /\ [][SpecCacheNext]_vars

\* a Set has put key into a cache that did not hold it
SetsNewKey(key) == key \notin DOMAIN cache /\ key \in DOMAIN cache'
\* items of the cache with an access time that no other item's is older than
Oldest(data) ==
    { k \in DOMAIN data : \A j \in DOMAIN data : data[k].AccessTime <= data[j].AccessTime }
\* the step is a Get that returned a value
GetSucceeds == cacheCall'.op = "get" /\ cacheCall'.value # NilInfo /\ now' = now

\* C12: a Get that returns a value sets the item's AccessTime to the current
\* time; a Set of a new key into a cache holding CacheCap items removes
\* exactly one item, one of those with the oldest AccessTime, and leaves the
\* others as they were, so that an item accessed later than another survives.
C12_TrueLRU ==
    /\ [][GetSucceeds => cache'[cacheCall'.key].AccessTime = now]_vars
    /\ [][\A key \in CacheKeys :
            (SetsNewKey(key) /\ Cardinality(DOMAIN cache) = CacheCap) =>
                /\ \E e \in Oldest(cache) :
                      /\ DOMAIN cache' = (DOMAIN cache \ {e}) \cup {key}
                      /\ \A j \in DOMAIN cache \ {e} : cache'[j] = cache[j]
                /\ \A j \in DOMAIN cache :
                      (\E o \in DOMAIN cache : cache[o].AccessTime < cache[j].AccessTime)
                          => j \in DOMAIN cache']_vars

\* a Set has evicted an item that was written after an item that is still
\* held, which a Get had touched after it was written
C12_Witness ==
    /\ cacheCall.op = "set"
    /\ \E e \in DOMAIN cacheCall.evicted, k \in DOMAIN cache :
          /\ k # cacheCall.key
          /\ cache[k].ExpiresAt < cacheCall.evicted[e].ExpiresAt
          /\ cache[k].AccessTime > cache[k].ExpiresAt - CacheDuration

-----------------------------------------------------------------------------
(* Caching of the results (the monitor, specification Spec). *)

\* the duration under which a result is to be cached
CheckTTL(info, t) ==
    IF info.Status = StatusError THEN 10 ELSE GetSmartCacheDuration(info, t)
\* the step leaves info cached for domain, written now with the duration above
Caches(domain, info) ==
    /\ cacheKey(domain) \in DOMAIN cache'
    /\ cache'[cacheKey(domain)] = CacheItem(info, now + CheckTTL(info, now), now)
\* ForceCheck has its result and caches it
ForceCaches == fc.pc = "check" /\ fc'.pc = "detect"

\* C13: every result of a check, error or not, is in the cache under the
\* domain's key once the path that made the check has handled it, with the
\* smart duration for a non-error result and 10 minutes for an error.
C13_EveryCheckCached ==
    [][ /\ ForceCaches => Caches(fc.domain, fc'.info)
        /\ GetHandles => /\ cacheKey(gd.domain) \in DOMAIN cache'
                         /\ Caches(gd.domain, cache'[cacheKey(gd.domain)].Data)
        /\ \A id \in DOMAIN loops :
              BatchHandles(id) =>
                  Caches(BatchDomain(id), loops[id].results[loops[id].i]) ]_vars

\* C14: the step in which GetDomainInfo handles the result of its check after
\* a miss does what a pass of the batch does with it: a non-error result is
\* recorded in lastStatus, and an event is enqueued (the channel having room)
\* when it differs from the status recorded before.
C14_GetAppliesBatchLogic == [][GetHandles => EnqueuesIfRoom(gd.domain, GetStatus)]_vars

-----------------------------------------------------------------------------
(* The monitor's accessors, called by the web handlers while time passes (in *)
(* minutes); the monitor loop is not started.  SpecAccess has GetDomainInfo  *)
(* and ForceCheck, SpecSnapshot has GetAllDomainInfo.                        *)

\* the instants at which something happens
AccInstants == {0, 4, 5, 10, 11}

\* GetAllDomainInfo: len(m.lastResults) > 0 && time.Since(m.lastStatsTime) < 5*time.Minute
SnapshotFresh_Inclusive(lr, lst, t) == Len(lr) > 0 /\ lst # NoTime /\ t - lst <= 5

SnapshotFresh(lr, lst, t) == Len(lr) > 0 /\ lst # NoTime /\ t - lst < 5

\* GetAllDomainInfo up to the decision: the domains are copied; a fresh
\* snapshot is returned, otherwise the call goes on to CheckDomains
GaBegin ==
    /\ ga.pc = "idle"
    /\ IF SnapshotFresh(lastResults, lastStatsTime, now)
       THEN /\ gaRet' = [queried |-> FALSE, results |-> lastResults]
            /\ UNCHANGED ga
       ELSE /\ ga' = [pc |-> "check", domains |-> domains]
            /\ UNCHANGED gaRet
    /\ UNCHANGED <<monVars, chkVars, cdVars, nmVars, cacheVars, ttlVars, pureVars>>

\* GetAllDomainInfo: CheckDomains(domains) has returned; the snapshot and its
\* time are replaced and the results returned
GaStore ==
    /\ ga.pc = "check"
    /\ \E nets \in [1..Len(ga.domains) -> MonNets] :
          LET res == [i \in 1..Len(ga.domains) |-> CheckDomain(ga.domains[i], nets[i], now)]
          IN  /\ lastResults' = res
              /\ lastStatsTime' = now
              /\ gaRet' = [queried |-> TRUE, results |-> res]
    /\ ga' = [pc |-> "idle"]
    /\ UNCHANGED <<domains, isRunning, stopClosed, stopPanics, notifications,
                   lastStatus, cache, loops, fc, gd, now, starts>>
    /\ UNCHANGED <<chkVars, cdVars, nmVars, cacheVars, ttlVars, pureVars>>

\* time passes
AccTick ==
    /\ \E t \in AccInstants : t > now /\ now' = t
    /\ UNCHANGED <<domains, isRunning, stopClosed, stopPanics, notifications,
                   lastStatus, lastResults, lastStatsTime, cache, loops, fc, gd, starts>>
    /\ UNCHANGED MonOthers

SpecAccessInit == Init

SpecAccessNext ==
    \/ \E list \in MonDomainLists : LoadDomains(list)
    \/ \E domain \in MonNames : GdBegin(domain)
    \/ GdCheck
    \/ \E domain \in MonNames : FcBegin(domain)
    \/ FcCheck
    \/ FcDetect
    \/ AccTick

SpecAccess == SpecAccessInit /\ [][SpecAccessNext]_vars

(* SpecSnapshot: GetAllDomainInfo called again and again while time passes   *)
(* and the domain list is reloaded.                                          *)

SpecSnapshotInit == Init

SpecSnapshotNext ==
    \/ \E list \in MonDomainLists : LoadDomains(list)
    \/ GaBegin
    \/ GaStore
    \/ AccTick

SpecSnapshot == SpecSnapshotInit /\ [][SpecSnapshotNext]_vars

\* the cache holds an item for domain that has not expired
Unexpired(domain) ==
    /\ cacheKey(domain) \in DOMAIN cache
    /\ ~(now > cache[cacheKey(domain)].ExpiresAt)
\* a call of GetDomainInfo(domain) that finds the item: all it does to the
\* state is to set the item's access time
GetHits(domain) ==
    /\ gd.pc = "idle" /\ fc' = fc
    /\ Unexpired(domain)
    /\ cache' # cache
    /\ cache' = [cache EXCEPT ![cacheKey(domain)].AccessTime = now]

\* C15: while the cache holds an unexpired item for a domain, Get returns the
\* item's DomainInfo, no call of GetDomainInfo for the domain goes on to a
\* check, and a call that finds the item leaves lastStatus, the notification
\* channel and the item's data and expiry as they were.
C15_HitReturnsCached ==
    /\ [](\A domain \in MonNames :
            Unexpired(domain) =>
                /\ CacheGet(cache, cacheKey(domain), now).value
                      = cache[cacheKey(domain)].Data
                /\ cache[cacheKey(domain)].Data # NilInfo)
    /\ [][\A domain \in MonNames :
            /\ (Unexpired(domain) /\ gd.pc = "idle") =>
                  ~(gd'.pc = "check" /\ gd'.domain = domain)
            /\ GetHits(domain) => UNCHANGED <<gd, lastStatus, notifications, domains,
                                              lastResults, lastStatsTime>>]_vars

\* C15 witness: a.c has a recorded status; its cached result was returned by
\* a call made at the very instant of its expiry and no event is queued
C15_Witness ==
    /\ gd.pc = "idle" /\ fc.pc = "idle"
    /\ A_C \in DOMAIN lastStatus
    /\ notifications = <<>>
    /\ Unexpired(A_C)
    /\ cache[cacheKey(A_C)].AccessTime = cache[cacheKey(A_C)].ExpiresAt
    /\ cache[cacheKey(A_C)].Data.Status # lastStatus[A_C]

-----------------------------------------------------------------------------
(* ForceCheck against the periodic batch (specification Spec). *)

\* what a pass of the batch does with a result: an error result changes
\* neither the channel nor lastStatus, any other is recorded and, if it
\* differs from the recorded status and the channel has room, enqueued
BatchTransition(domain, status) ==
    IF status = StatusError
    THEN UNCHANGED <<notifications, lastStatus>>
    ELSE EnqueuesIfRoom(domain, status)
\* ForceCheck deletes the cached item
ForceInvalidates == fc.pc = "idle" /\ fc'.pc = "check"

\* C16: ForceCheck first removes the domain's item from the cache, then checks
\* and caches the new result, then applies to it the transition the batch
\* applies to its results.
C16_ForceCheckSameLogic ==
    [][ /\ ForceInvalidates => cacheKey(fc'.domain) \notin DOMAIN cache'
        /\ ForceCaches => Caches(fc.domain, fc'.info)
        /\ DetectSteps(BatchTransition) ]_vars

-----------------------------------------------------------------------------
(* The snapshot of GetAllDomainInfo (specification SpecSnapshot). *)

\* age of the snapshot in minutes (NoTime when none was ever stored)
SnapshotAge == IF lastStatsTime = NoTime THEN NoTime ELSE now - lastStatsTime
\* a snapshot exists and is less than 5 minutes old
Reusable == Len(lastResults) > 0 /\ SnapshotAge # NoTime /\ SnapshotAge < 5
\* a call of GetAllDomainInfo returns / goes on to CheckDomains / stores
GaReturnsSnapshot == ga.pc = "idle" /\ gaRet' # gaRet /\ ga' = ga
GaQueries == ga.pc = "idle" /\ ga'.pc = "check"
GaStores == ga.pc = "check" /\ ga'.pc = "idle"

-----------------------------------------------------------------------------
(* The full notification channel (specification Spec). *)

\* the result differs from the recorded status and the channel is full
ChangeOnFull(domain, status) ==
    /\ status # StatusError
    /\ domain \in DOMAIN lastStatus /\ lastStatus[domain] # status
    /\ Len(notifications) = NotifCap
DropsOnFull(domain, status) ==
    ChangeOnFull(domain, status) =>
        /\ notifications' = notifications
        /\ lastStatus' = MapPut(lastStatus, domain, status)

\* C18: the channel never holds more than its capacity; whatever the channel
\* holds, a ForceCheck that has its result and a batch that has results left
\* can take their next step; and a step that handles a changed non-error
\* result while the channel is full leaves the channel as it is and records
\* the new status.
C18_DropOnFull ==
    /\ [](Len(notifications) <= NotifCap)
    /\ [](fc.pc = "detect" => ENABLED FcDetect)
    /\ [](\A id \in DOMAIN loops : loops[id].pc = "process" => ENABLED LoopProcess(id))
    /\ [][DetectSteps(DropsOnFull)]_vars

\* C18 witness: the channel is full of an event available->registered that
\* nobody took, and a later change to available was handled: it is recorded
\* and not in the channel
C18_Witness ==
    /\ Len(notifications) = NotifCap
    /\ notifications[NotifCap].Domain = A_C
    /\ notifications[NotifCap].NewStatus = StatusRegistered
    /\ fc.pc = "idle"
    /\ \A id \in DOMAIN loops : loops[id].pc # "process"
    /\ A_C \in DOMAIN lastStatus
    /\ lastStatus[A_C] = StatusAvailable

-----------------------------------------------------------------------------
(* A ForceCheck racing the batch (specification Spec).  Each of the two      *)
(* locked sections is one step: FcDetect and LoopProcess.                    *)

\* a result equal to the recorded status changes neither channel nor record
SameStatusNoEvent(domain, status) ==
    (domain \in DOMAIN lastStatus /\ lastStatus[domain] = status) =>
        UNCHANGED <<notifications, lastStatus>>
\* after the section the record holds the section's non-error result
LastWriterWins(domain, status) ==
    status # StatusError =>
        /\ domain \in DOMAIN lastStatus' /\ lastStatus'[domain] = status
        /\ \A d \in DOMAIN lastStatus' \ {domain} :
              d \in DOMAIN lastStatus /\ lastStatus'[d] = lastStatus[d]
\* the section enqueues at most one event, built from the record as the
\* section found it
AtMostOneEvent(domain, status) ==
    \/ notifications' = notifications
    \/ /\ domain \in DOMAIN lastStatus
       /\ notifications' = Append(notifications,
             StatusChangeEvent(domain, lastStatus[domain], status, now))

\* C19: every locked section of ForceCheck and of the batch reads the record,
\* decides and writes in one step: it enqueues at most one event, computed
\* from the record it found; it leaves the record holding its own non-error
\* result; and a section that finds its result already recorded (the other
\* check was first) enqueues nothing.
C19_SerializedTransitions ==
    [][ /\ DetectSteps(AtMostOneEvent)
        /\ DetectSteps(LastWriterWins)
        /\ DetectSteps(SameStatusNoEvent)
        /\ (notifications' # notifications /\ Len(notifications') > Len(notifications)) =>
              (ForceHandles \/ \E id \in DOMAIN loops : BatchHandles(id)) ]_vars

\* C19 witness: a.c was available; the batch and a ForceCheck both found it
\* registered; the batch's section ran first and enqueued the one event, the
\* ForceCheck is about to enter its section with the same status
C19_Witness ==
    /\ \E id \in DOMAIN loops :
          /\ loops[id].pc = "store"
          /\ loops[id].results[1].Status = StatusRegistered
    /\ fc.pc = "detect" /\ fc.domain = A_C /\ fc.info.Status = StatusRegistered
    /\ A_C \in DOMAIN lastStatus /\ lastStatus[A_C] = StatusRegistered
    /\ notifications = <<StatusChangeEvent(A_C, StatusAvailable, StatusRegistered, 0)>>

-----------------------------------------------------------------------------
(* SpecTTL: calls of GetSmartCacheDuration, one after the other, on every    *)
(* status and every expiry date of TtlExpiries, at the instants of TtlNows.  *)
(* Times are in minutes.                                                     *)

Day == 24 * 60
Hour == 60

TtlStatuses == DomainStatus \cup {"other"}
\* time.Now() during the call
TtlNows == {200, 5000}
\* ExpiryDate - time.Now(): in the past, now, and around the 3- and 30-day limits
TtlOffsets ==
    {0 - 100, 0, 1, 2 * Day, 3 * Day - 1, 3 * Day, 3 * Day + 1, 3 * Day + 12 * Hour,
     30 * Day - 1, 30 * Day, 30 * Day + 1, 31 * Day}
TtlExpiries(t) == {NoTime} \cup { t + o : o \in TtlOffsets }

TtlInput ==
    \E t \in TtlNows, status \in TtlStatuses :
       \E expiry \in TtlExpiries(t) :
          /\ ttlNow' = t
          /\ ttlInfo' = DomainInfo(A_C, status, "rdap", "", expiry)

TtlInit ==
    /\ ttlOut = NoTime
    /\ \E t \in TtlNows, status \in TtlStatuses :
          \E expiry \in TtlExpiries(t) :
             /\ ttlNow = t
             /\ ttlInfo = DomainInfo(A_C, status, "rdap", "", expiry)

\* the call
TtlCall ==
    /\ ttlOut = NoTime
    /\ ttlOut' = GetSmartCacheDuration(ttlInfo, ttlNow)
    /\ UNCHANGED <<ttlInfo, ttlNow>>
    /\ UNCHANGED <<chkVars, cdVars, monVars, nmVars, cacheVars, accVars, pureVars>>

\* another receiver, another instant
TtlAgain ==
    /\ ttlOut # NoTime
    /\ ttlOut' = NoTime
    /\ TtlInput
    /\ UNCHANGED <<chkVars, cdVars, monVars, nmVars, cacheVars, accVars, pureVars>>

SpecTTLInit == TtlInit /\ chkIdle /\ cdIdle /\ monIdle /\ nmIdle /\ cacheIdle /\ accIdle /\ pureIdle

SpecTTLNext == TtlCall \/ TtlAgain

SpecTTL == SpecTTLInit /\ [][SpecTTLNext]_vars

\* the table of durations: status, expiry date and current time to minutes
TTLTable(status, expiry, t) ==
    CASE status = StatusPendingDelete -> 5
      [] status = StatusRedemption    -> 1 * Hour
      [] status = StatusAvailable     -> 30
      [] status = StatusExpired       -> 6 * Hour
      [] status = StatusError         -> 10
      [] status = StatusRegistered    ->
            IF expiry = NoTime THEN 24 * Hour
            ELSE IF expiry - t <= 3 * Day THEN 6 * Hour
            ELSE IF expiry - t <= 30 * Day THEN 12 * Hour
            ELSE 24 * Hour
      [] OTHER                        -> 2 * Hour

\* the duration returned for a registered domain that expires in `left`
RegisteredGets(left, duration) ==
    (ttlInfo.Status = StatusRegistered /\ ttlInfo.ExpiryDate # NoTime
        /\ ttlInfo.ExpiryDate - ttlNow = left) => ttlOut = duration

-----------------------------------------------------------------------------
(* Cache.Get and its counters (specification SpecCache). *)

\* the step is a call of Get: one of the two counters goes up by one
GetStep == hitCount' + missCount' = hitCount + missCount + 1
\* the item under key, if any, has an expiry time that has passed
Passed(key) == key \in DOMAIN cache /\ now > cache[key].ExpiresAt

\* C23: a Get of a key held with an expiry time that has not passed returns
\* the item's data, sets its AccessTime to the current time and counts a hit;
\* a Get of a key not held counts a miss, returns nil and changes nothing
\* else; a Get of an item whose expiry time has passed counts a miss, returns
\* nil and removes the item.  Nothing else moves the counters up.
C23_GetHonoursExpiry ==
    [][ /\ GetStep =>
             LET key == cacheCall'.key
             IN  /\ cacheCall'.op = "get"
                 /\ IF key \in DOMAIN cache /\ ~Passed(key)
                    THEN /\ cacheCall'.value = cache[key].Data
                         /\ cacheCall'.value # NilInfo
                         /\ cache' = [cache EXCEPT ![key].AccessTime = now]
                         /\ hitCount' = hitCount + 1 /\ missCount' = missCount
                    ELSE /\ cacheCall'.value = NilInfo
                         /\ missCount' = missCount + 1 /\ hitCount' = hitCount
                         /\ key \notin DOMAIN cache'
                         /\ \A k \in DOMAIN cache \ {key} :
                               k \in DOMAIN cache' /\ cache'[k] = cache[k]
                         /\ DOMAIN cache' \subseteq DOMAIN cache
        /\ (hitCount' > hitCount \/ missCount' > missCount) => GetStep ]_vars

\* C23 witness: after one hit, a Get found the item expired: it returned nil,
\* counted a miss and removed the item
C23_Witness ==
    /\ cacheCall.op = "get" /\ cacheCall.value = NilInfo
    /\ cacheCall.key \in DOMAIN cacheCall.evicted
    /\ cacheCall.evicted[cacheCall.key].ExpiresAt < now
    /\ cacheCall.key \notin DOMAIN cache
    /\ hitCount = 1 /\ missCount = 1

-----------------------------------------------------------------------------
(* DomainChecker.ValidateDomain, src/unnamed/part_003 *)

LowerLetters ==
    {"a", "b", "c", "d", "e", "f", "g", "h", "i", "j", "k", "l", "m",
     "n", "o", "p", "q", "r", "s", "t", "u", "v", "w", "x", "y", "z"}
UpperLetters ==
    {"A", "B", "C", "D", "E", "F", "G", "H", "I", "J", "K", "L", "M",
     "N", "O", "P", "Q", "R", "S", "T", "U", "V", "W", "X", "Y", "Z"}
Digits == {"0", "1", "2", "3", "4", "5", "6", "7", "8", "9"}

\* the character test of the first loop
ValidChar(char) ==
    char \in LowerLetters \/ char \in UpperLetters \/ char \in Digits
        \/ char = "." \/ char = "-"

\* the all-digits test of the last part
AllDigits(part) == \A i \in 1..Len(part) : part[i] \in Digits

\* the error messages (the code's texts are Chinese)
ErrEmpty       == "domain must not be empty"
ErrTooLong     == "domain longer than 253 characters"
ErrInvalidChar == "domain contains an invalid character"
ErrNoDot       == "domain must contain a dot"
ErrEmptyPart   == "domain part must not be empty"
ErrPartTooLong == "domain part longer than 63 characters"
ErrHyphen      == "domain part must not start or end with a hyphen"
ErrDigitTLD    == "top-level domain must not be all digits"

\* the tests of one part, in the order of the loop body
PartError_Limit62(part, last) ==
    IF part = <<>> THEN ErrEmptyPart
    ELSE IF Len(part) >= 63 THEN ErrPartTooLong
    ELSE IF part[1] = "-" \/ part[Len(part)] = "-" THEN ErrHyphen
    ELSE IF last /\ AllDigits(part) THEN ErrDigitTLD
    ELSE Nil

PartError(part, last) ==
    IF part = <<>> THEN ErrEmptyPart
    ELSE IF Len(part) > 63 THEN ErrPartTooLong
    ELSE IF part[1] = "-" \/ part[Len(part)] = "-" THEN ErrHyphen
    ELSE IF last /\ AllDigits(part) THEN ErrDigitTLD
    ELSE Nil

\* for i, part := range parts: the first error, nil if there is none
RECURSIVE PartsError(_, _)
PartsError(parts, i) ==
    IF i > Len(parts) THEN Nil
    ELSE LET e == PartError(parts[i], i = Len(parts))
         IN  IF e # Nil THEN e ELSE PartsError(parts, i + 1)

\* ValidateDomain: the error returned, Nil for nil
ValidateDomain(name) ==
    LET domain == TrimSpace(name)
    IN  IF domain = <<>> THEN ErrEmpty
        ELSE IF Len(domain) > 253 THEN ErrTooLong
        ELSE IF \E i \in 1..Len(domain) : ~ValidChar(domain[i]) THEN ErrInvalidChar
        ELSE LET parts == SplitDot(domain)
             IN  IF Len(parts) < 2 THEN ErrNoDot
                 ELSE PartsError(parts, 1)

(* SpecValidate: one call of ValidateDomain on each name of VdNames.         *)

VdMaxLen == 4        \* every string of VdAlphabet up to this length is tried

VdAlphabet == {"a", "1", "-", ".", "_", " "}
VdShort == UNION { [1..n -> VdAlphabet] : n \in 0..VdMaxLen }

Repeat(char, n) == [i \in 1..n |-> char]
Dot == <<".">>
\* names at the length limits: 63.63.63.61 is 253 characters long
VdLong ==
    { Repeat("a", 63) \o Dot \o Repeat("b", 63) \o Dot \o Repeat("c", 63) \o Dot
          \o Repeat("d", 61),
      Repeat("a", 63) \o Dot \o Repeat("b", 63) \o Dot \o Repeat("c", 63) \o Dot
          \o Repeat("d", 62),
      Repeat("a", 63) \o Dot \o <<"c">>,
      Repeat("a", 64) \o Dot \o <<"c">>,
      <<" ">> \o Repeat("a", 63) \o Dot \o Repeat("b", 63) \o Dot \o Repeat("c", 63)
          \o Dot \o Repeat("d", 61) \o <<" ">> }
VdExamples ==
    { <<"-", "a", "b", "c", ".", "c", "o", "m">>,
      <<"a", "b", "c", "-", ".", "c", "o", "m">>,
      <<"a", "b", "c", ".", ".", "c", "o", "m">>,
      <<"a", "b", "c", ".", "1", "2", "3">>,
      <<"a", ".", "b">>,
      <<"e", "x", "a", "m", "p", "l", "e", ".", "c", "o", "m">>,
      <<"E", "x", "-", "9", ".", "C", "o", "m">>,
      <<" ", "a", ".", "b", " ">> }
VdNames == VdShort \cup VdLong \cup VdExamples

VdInit == vdName \in VdNames /\ vdErr = "pending"

\* err := dc.ValidateDomain(domain)
VdCall ==
    /\ vdErr = "pending"
    /\ vdErr' = ValidateDomain(vdName)
    /\ UNCHANGED <<vdName, whVars, rpVars, dspVars, sweep>>
    /\ UNCHANGED <<chkVars, cdVars, monVars, nmVars, cacheVars, accVars, ttlVars>>

SpecValidateInit ==
    /\ VdInit /\ whIdle /\ rpIdle /\ dspIdle /\ sweepIdle
    /\ chkIdle /\ cdIdle /\ monIdle /\ nmIdle /\ cacheIdle /\ accIdle /\ ttlIdle

SpecValidateNext == VdCall

SpecValidate == SpecValidateInit /\ [][SpecValidateNext]_vars

\* the dot-separated labels of a name
Labels(name) == SplitDot(name)
\* what makes a name malformed
Malformed(name) ==
    \/ name = <<>>
    \/ Len(name) > 253
    \/ \E i \in 1..Len(name) : ~ValidChar(name[i])
    \/ Len(Labels(name)) < 2
    \/ \E i \in 1..Len(Labels(name)) :
          LET label == Labels(name)[i]
          IN  \/ label = <<>>
              \/ Len(label) > 63
              \/ label[1] = "-" \/ label[Len(label)] = "-"
    \/ AllDigits(Labels(name)[Len(Labels(name))])

\* C21 as stated: ValidateDomain returns an error exactly for the malformed
\* names, the name taken as it is passed.
C21_Original == vdErr # "pending" => (vdErr # Nil <=> Malformed(vdName))

\* C21 amended: ValidateDomain returns an error exactly when the name, with
\* the white space around it removed, is malformed.
C21_ValidateDomain == vdErr # "pending" => (vdErr # Nil <=> Malformed(TrimSpace(vdName)))

\* C21 witness: " a.b " has been accepted
C21_Witness == vdName = <<" ", "a", ".", "b", " ">> /\ vdErr = Nil

\* C22: a call of CheckDomain with a name that ValidateDomain rejects issues
\* no RDAP and no WHOIS query.
C22_NoQueryForMalformed ==
    (chkPc = "done" /\ ValidateDomain(chkDomain) # Nil) => chkTrace = <<>>

-----------------------------------------------------------------------------
(* WhoisClient.QueryWhois and WhoisClient.parseStatus on their own,
   src/core/whois.go *)

\* the patterns the response texts are built from: one or two of every group,
\* and the patterns that contain a pattern of another group
WhMarkers ==
    { "not found", "status: free", "redemption", "pending delete restorable",
      "pending delete", "expired", "expiry date", "expiry date:", "client hold",
      "transfer prohibited", "status:" }
\* strings.Contains: a text that contains the first contains the second
WhSubstring ==
    { <<"pending delete restorable", "pending delete">>,
      <<"expiry date:", "expiry date">>,
      <<"status: free", "status:">> }
WhContains ==
    { c \in SUBSET WhMarkers : \A p \in WhSubstring : p[1] \in c => p[2] \in c }
WhInstant == 5
\* the dates after the expiry label: none, before, at and after the instant of
\* the parse
WhDates == { NoTime, 3, 5, 8 }
WhTexts ==
    { WhoisText(c, d) : c \in WhContains, d \in WhDates }
        \cup { WhoisTextTZ(c, d) : c \in WhContains, d \in WhDates \ { NoTime } }
\* the text received when an exchange ends early
WhPartial == { WhoisText({}, NoTime), WhoisText({"status:", "pending delete"}, NoTime) }
WhExchanges ==
    { TCPExchange("none", text) : text \in WhTexts }
        \cup { TCPExchange(f, text) :
                 f \in { "dial", "write", "read", "deadline", "reset", "cap" },
                 text \in WhPartial }

WhInit ==
    /\ whExchange \in WhExchanges /\ whNow = WhInstant
    /\ whRet = WhPending /\ whStatus = Nil

\* response, err := w.QueryWhois(domain, server, port, timeout)
WhQuery ==
    /\ whRet.err = "pending"
    /\ whRet' = QueryWhois(<<"a", ".", "c">>, whExchange)
    /\ UNCHANGED <<whExchange, whNow, whStatus, vdVars, rpVars, dspVars, sweep>>
    /\ UNCHANGED <<chkVars, cdVars, monVars, nmVars, cacheVars, accVars, ttlVars>>

\* info.Status = w.parseStatus(lowerResponse)
WhParse ==
    /\ whRet.err = Nil /\ whStatus = Nil
    /\ whStatus' = parseStatus(whRet.response, whNow)
    /\ UNCHANGED <<whExchange, whNow, whRet, vdVars, rpVars, dspVars, sweep>>
    /\ UNCHANGED <<chkVars, cdVars, monVars, nmVars, cacheVars, accVars, ttlVars>>

SpecWhoisInit ==
    /\ WhInit /\ vdIdle /\ rpIdle /\ dspIdle /\ sweepIdle
    /\ chkIdle /\ cdIdle /\ monIdle /\ nmIdle /\ cacheIdle /\ accIdle /\ ttlIdle

SpecWhoisNext == WhQuery \/ WhParse

SpecWhois == SpecWhoisInit /\ [][SpecWhoisNext]_vars

\* the marker groups in their priority, and the status of each
MarkerGroups ==
    << availablePatterns, redemptionPatterns, pendingDeletePatterns,
       expiredPatterns, holdPatterns, transferLockPatterns, registeredPatterns >>
GroupStatus ==
    << StatusAvailable, StatusRedemption, StatusPendingDelete, StatusExpired,
       StatusHold, StatusTransferLocked, StatusRegistered >>
\* a group matches a text when one of its markers is in the text; the expired
\* group also needs the date read again from the text to be before now
GroupMatches(g, text, t) ==
    /\ \E i \in 1..Len(MarkerGroups[g]) : MarkerGroups[g][i] \in text.contains
    /\ g = 4 => (text.lowered # NoTime /\ text.lowered < t)
FirstMatch(text, t) ==
    LET matching == { g \in 1..Len(MarkerGroups) : GroupMatches(g, text, t) }
    IN  IF matching = {} THEN StatusUnknown
        ELSE GroupStatus[CHOOSE g \in matching : \A h \in matching : g <= h]

\* C24: the status parsed from a WHOIS response is the status of the first
\* marker group, in the fixed priority, that matches the response (the expired
\* group matching only with a re-parsed expiry date before now), and unknown
\* when no group matches.
C24_FirstMatchWins ==
    whStatus # Nil => whStatus = FirstMatch(whRet.response, whNow)

\* C24 witness: a body with "status: pending delete" and no marker of a group
\* of higher priority is classified pending_delete
C24_Witness ==
    /\ whStatus = StatusPendingDelete
    /\ whRet.response.contains = { "status:", "pending delete" }

-----------------------------------------------------------------------------
(* RDAPClient.ParseRDAPResponse on its own, src/core/status.go *)

RpMaxLen == 3
\* status tokens: one or two of every group, three with capitals, and one that
\* no group holds
RpTokens ==
    { "redemption period", "Pending Delete", "pending delete", "expired",
      "Client Hold", "client transfer prohibited", "ok", "ACTIVE",
      "client update prohibited", "inactive" }
RECURSIVE RpSeqs(_)
RpSeqs(n) ==
    IF n = 0 THEN { <<>> }
    ELSE RpSeqs(n - 1) \cup { Append(q, t) : q \in [1..(n - 1) -> RpTokens], t \in RpTokens }
RpResponses ==
    { [ErrorCode |-> e, Status |-> q, Expiration |-> x] :
        e \in { 0, 404 }, q \in RpSeqs(RpMaxLen), x \in { NoTime, 7 } }

RpInit == rpResp \in RpResponses /\ rpInfo = NilInfo

\* info := r.ParseRDAPResponse(domain, rdapResp)
RpParse ==
    /\ rpInfo = NilInfo
    /\ rpInfo' = ParseRDAPResponse(<<"a", ".", "c">>, rpResp)
    /\ UNCHANGED <<rpResp, vdVars, whVars, dspVars, sweep>>
    /\ UNCHANGED <<chkVars, cdVars, monVars, nmVars, cacheVars, accVars, ttlVars>>

SpecRdapInit ==
    /\ RpInit /\ vdIdle /\ whIdle /\ dspIdle /\ sweepIdle
    /\ chkIdle /\ cdIdle /\ monIdle /\ nmIdle /\ cacheIdle /\ accIdle /\ ttlIdle

SpecRdapNext == RpParse

SpecRdap == SpecRdapInit /\ [][SpecRdapNext]_vars

\* the token groups in their priority, and the status of each
TokenGroups ==
    << { "redemption period", "redemptionperiod" },
       { "pending delete", "pendingdelete" },
       { "expired" },
       { "client hold", "server hold", "registrar hold", "registry hold" },
       { "client transfer prohibited", "server transfer prohibited",
         "clienttransferprohibited", "servertransferprohibited" },
       { "ok", "active", "client update prohibited", "server update prohibited",
         "client delete prohibited", "server delete prohibited" } >>
TokenStatus ==
    << StatusRedemption, StatusPendingDelete, StatusExpired, StatusHold,
       StatusTransferLocked, StatusRegistered >>
ByPriority(tokens) ==
    LET lowered  == { LowerToken(tokens[i]) : i \in 1..Len(tokens) }
        matching == { g \in 1..Len(TokenGroups) : TokenGroups[g] \cap lowered # {} }
    IN  IF matching = {} THEN StatusRegistered
        ELSE TokenStatus[CHOOSE g \in matching : \A h \in matching : g <= h]

\* C25 as stated: for every non-404 response and every token set the status is
\* the one of the first group, in the fixed priority, that holds a lower-cased
\* token of the response, and registered when no group does.
C25_Original ==
    (rpInfo # NilInfo /\ rpResp.ErrorCode # 404)
        => rpInfo.Status = ByPriority(rpResp.Status)

\* C25 amended: for every non-404 response the status is unknown when the
\* response has no status token, and otherwise the one of the first group, in
\* the fixed priority, that holds a lower-cased token of the response,
\* registered when no group does.
C25_TokenPriority ==
    (rpInfo # NilInfo /\ rpResp.ErrorCode # 404)
        => rpInfo.Status = IF rpResp.Status = <<>> THEN StatusUnknown
                           ELSE ByPriority(rpResp.Status)

\* C25 witness: redemption period wins over a capitalised hold token listed
\* before it
C25_Witness ==
    /\ rpInfo.Status = StatusRedemption
    /\ rpResp.ErrorCode = 0
    /\ rpResp.Status = << "Client Hold", "redemption period" >>

-----------------------------------------------------------------------------
(* The HTTP outcomes of QueryRDAP as CheckDomain sees them *)

\* the call queried RDAP and the HTTP exchange brought a status code
ChkHTTPStatus(codes) ==
    /\ chkPc = "done"
    /\ ChkTLD # <<>> /\ GetRDAPServerByTLD(ChkTLD)
    /\ chkNet.rdap.fail = "none"
    /\ chkNet.rdap.StatusCode \in codes
\* what json.Unmarshal made of the body
ChkDecoded ==
    [ErrorCode |-> chkNet.rdap.ErrorCode, Status |-> chkNet.rdap.Status,
     Expiration |-> chkNet.rdap.Expiration]
HTTPStatusCodes == { x.StatusCode : x \in RDAPExchanges }

\* C26: an HTTP 404 of the RDAP server makes CheckDomain return status
\* available from RDAP with no WHOIS query; an HTTP 200 with a decodable body
\* makes it return the parse of the decoded body; every other HTTP status is an
\* error of the RDAP attempt, after which the WHOIS server mapped for the TLD
\* is queried and no RDAP result is returned.
C26_HTTPOutcome ==
    /\ ChkHTTPStatus({404}) =>
          /\ chkInfo.Status = StatusAvailable
          /\ chkInfo.QueryMethod = "rdap"
          /\ chkTrace = <<"rdap">>
    /\ (ChkHTTPStatus({200}) /\ chkNet.rdap.json) =>
          /\ chkInfo = ParseRDAPResponse(ChkName, ChkDecoded)
          /\ chkTrace = <<"rdap">>
    /\ ChkHTTPStatus(HTTPStatusCodes \ {200, 404}) =>
          /\ chkInfo.QueryMethod # "rdap"
          /\ GetWhoisServerByTLD(ChkTLD) => chkTrace = <<"rdap", "whois">>

\* C26 witness: a 404 was answered with available although the WHOIS server
\* would have described a registered domain
C26_Witness ==
    /\ ChkHTTPStatus({404})
    /\ chkInfo.Status = StatusAvailable
    /\ chkTrace = <<"rdap">>
    /\ chkNet.whois.fail = "none"
    /\ "registrar:" \in chkNet.whois.text.contains

\* C26 witness of the fallback: a 429 with a decodable body was not parsed, and
\* the WHOIS answer was returned
C26_FallbackWitness ==
    /\ ChkHTTPStatus({429})
    /\ chkTrace = <<"rdap", "whois">>
    /\ chkInfo.QueryMethod = "whois"

-----------------------------------------------------------------------------
(* The outcomes of QueryWhois *)

\* C27: QueryWhois returns an error whenever connecting, writing or reading
\* fails, a read that fails at the deadline included, and returns a payload
\* only when the peer closed the connection or the 100KB cap was reached.
C27_ErrorOnFailure ==
    whRet.err # "pending" =>
        /\ whExchange.fail \in { "dial", "write", "read", "deadline", "reset" }
              => whRet.err # Nil
        /\ whRet.err = Nil => whExchange.fail \in { "none", "cap" }

-----------------------------------------------------------------------------
(* The worker pool of CheckDomains *)

\* the workers that are inside CheckDomain
InFlight == { w \in DOMAIN workers : workers[w].pc = "check" }
Min(a, b) == IF a < b THEN a ELSE b

\* C28: at every moment of a CheckDomains call the number of CheckDomain calls
\* in flight is at most min(concurrency limit, length of the list).
C28_BoundedInFlight ==
    Cardinality(InFlight) <= Min(cdLimit, Len(cdDomains))

\* C28 witness: with a limit of 1 one check is in flight while the next job
\* waits in the channel
C28_Witness ==
    /\ cdLimit = 1
    /\ Len(cdDomains) = 2
    /\ Cardinality(InFlight) = 1
    /\ jobs # <<>>

\* where input position i is: the number of times it is waiting in the jobs
\* channel, held by a worker, or already checked
Dispatches(i) ==
    Cardinality({ k \in 1..Len(jobs) : jobs[k].index = i })
        + Cardinality({ w \in InFlight : workers[w].job.index = i })
        + Len(checked[i])
\* the results delivered for position i, collected or still in the channel
Delivered(i) ==
    Cardinality({ k \in 1..Len(cdOrder) : cdOrder[k] = i })
        + Cardinality({ k \in 1..Len(results_chan) : results_chan[k].index = i })

\* C29: within one CheckDomains call every input position that has been sent
\* is with exactly one worker or channel slot and is checked at most once; one
\* result is delivered for every check made; and when the caller returns it
\* has collected exactly len(list) results, one for every position, each
\* position has been checked exactly once, and no slot of the slice is nil.
C29_ExactlyOnce ==
    /\ \A i \in 1..Len(cdDomains) :
          /\ Dispatches(i) = (IF i <= cdSent THEN 1 ELSE 0)
          /\ Delivered(i) = Len(checked[i])
    /\ cdPc = "done" =>
          /\ cdCollected = Len(cdDomains)
          /\ Len(cdOrder) = Len(cdDomains)
          /\ \A i \in 1..Len(cdDomains) :
                /\ Len(checked[i]) = 1
                /\ Cardinality({ k \in 1..Len(cdOrder) : cdOrder[k] = i }) = 1
                /\ results[i] # NilInfo

\* C29 witness: the call returned with two results, the failed check of the
\* first position made once only
C29_Witness ==
    /\ cdPc = "done"
    /\ Len(cdDomains) = 2
    /\ Len(checked[1]) = 1
    /\ checked[1][1].Status = StatusError
    /\ results[1].Status = StatusError
    /\ results[2].Status = StatusAvailable

-----------------------------------------------------------------------------
(* sentHistory and the queue of the NotificationManager *)

\* sender s puts its status_change event into the queue in this step
EnqueuesStatusChange(s) ==
    /\ senders[s].pc = "select"
    /\ senders[s].event.Type = "status_change"
    /\ queue' = Append(queue, senders[s].event)
\* sender s records its event in this step
RecordsSend(s) ==
    sentHistory' = recordNotification(sentHistory, senders[s].event.Domain,
                                      senders[s].event.Status, nmNow)

\* C30: sentHistory changes only by the recording of a status_change event that
\* its sender has just enqueued, and every enqueued status_change event is
\* recorded by the sender's next step; a call that ends with the event dropped
\* (queue full, duplicate, manager stopped) leaves sentHistory as it was; an
\* event of another type is never dropped as a duplicate and never recorded.
C30_RecordedIffEnqueued ==
    [][ /\ \A s \in NotifySenders :
              /\ (senders[s].pc # "record" /\ senders'[s].pc = "record")
                    <=> EnqueuesStatusChange(s)
              /\ (senders[s].pc = "record" /\ senders'[s] # senders[s])
                    => RecordsSend(s)
        /\ sentHistory' # sentHistory =>
              \E s \in NotifySenders : senders[s].pc = "record" /\ RecordsSend(s)
        /\ (lastSend' # lastSend
              /\ lastSend'.outcome \in { "full", "duplicate", "disabled", "panic" })
              => sentHistory' = sentHistory
        /\ (lastSend' # lastSend /\ lastSend'.event.Type # "status_change")
              => lastSend'.outcome # "duplicate"
      ]_vars

\* C30 witness: a status_change event was dropped by the full queue and its
\* key is not in sentHistory, which holds the key of an event enqueued before
C30_Witness ==
    /\ lastSend.outcome = "full"
    /\ lastSend.event = NmEvent("status_change", A_C, StatusRegistered)
    /\ A_C \in DOMAIN sentHistory
    /\ StatusAvailable \in DOMAIN sentHistory[A_C]
    /\ StatusRegistered \notin DOMAIN sentHistory[A_C]

-----------------------------------------------------------------------------
(* SpecDispatch: the dispatcher of the NotificationManager,                  *)
(* src/notification/notifier.go.  Events are numbered in the order in which  *)
(* SendNotification puts them into nm.queue.                                 *)

DspMaxEvents == 2    \* events accepted in one run

\* the notifiers main registers, in its order
NotifierTypes == << "email", "telegram" >>

\* AddNotifier appends a notifier whose IsEnabled() is true
AddNotifier(list, type) == Append(list, [type |-> type, enabled |-> TRUE])

DspInit ==
    /\ notifiers \in { <<>>, AddNotifier(<<>>, NotifierTypes[1]),
                       AddNotifier(<<>>, NotifierTypes[2]),
                       AddNotifier(AddNotifier(<<>>, NotifierTypes[1]), NotifierTypes[2]) }
    /\ dispatcher = [pc |-> "recv", event |-> 0]
    /\ accepted = <<>> /\ taken = <<>> /\ invoked = <<>> /\ sending = {}

\* case nm.queue <- event: of SendNotification
DspAccept ==
    /\ ~queueClosed
    /\ Len(accepted) < DspMaxEvents
    /\ Len(queue) < QueueCap
    /\ queue' = Append(queue, Len(accepted) + 1)
    /\ accepted' = Append(accepted, Len(accepted) + 1)
    /\ UNCHANGED <<queueClosed, enabled, sentHistory, nmNow, senders, lastSend, recorded>>
    /\ UNCHANGED <<notifiers, dispatcher, taken, invoked, sending>>
    /\ UNCHANGED <<chkVars, cdVars, monVars, cacheVars, accVars, ttlVars,
                   vdVars, whVars, rpVars, sweep>>

\* a dispatcher that waits for the SendMessage calls of the event before
DspRecv_AfterSends ==
    /\ dispatcher.pc = "recv"
    /\ sending = {}
    /\ \/ /\ queue # <<>>
          /\ dispatcher' = [pc |-> "send", event |-> Head(queue)]
          /\ queue' = Tail(queue)
          /\ taken' = Append(taken, Head(queue))
       \/ /\ queue = <<>> /\ queueClosed
          /\ dispatcher' = [pc |-> "exit", event |-> 0]
          /\ UNCHANGED <<queue, taken>>
    /\ UNCHANGED <<queueClosed, enabled, sentHistory, nmNow, senders, lastSend, recorded>>
    /\ UNCHANGED <<notifiers, accepted, invoked, sending>>
    /\ UNCHANGED <<chkVars, cdVars, monVars, cacheVars, accVars, ttlVars,
                   vdVars, whVars, rpVars, sweep>>

\* for event := range nm.queue
DspRecv ==
    /\ dispatcher.pc = "recv"
    /\ \/ /\ queue # <<>>
          /\ dispatcher' = [pc |-> "send", event |-> Head(queue)]
          /\ queue' = Tail(queue)
          /\ taken' = Append(taken, Head(queue))
       \/ /\ queue = <<>> /\ queueClosed
          /\ dispatcher' = [pc |-> "exit", event |-> 0]
          /\ UNCHANGED <<queue, taken>>
    /\ UNCHANGED <<queueClosed, enabled, sentHistory, nmNow, senders, lastSend, recorded>>
    /\ UNCHANGED <<notifiers, accepted, invoked, sending>>
    /\ UNCHANGED <<chkVars, cdVars, monVars, cacheVars, accVars, ttlVars,
                   vdVars, whVars, rpVars, sweep>>

\* the calls sendToAllNotifiers starts for an event: one goroutine for every
\* notifier whose IsEnabled() is true, in the order of nm.notifiers
RECURSIVE FanOut(_, _)
FanOut(list, event) ==
    IF list = <<>> THEN <<>>
    ELSE (IF Head(list).enabled THEN << <<event, Head(list).type>> >> ELSE <<>>)
            \o FanOut(Tail(list), event)

\* nm.sendToAllNotifiers(event)
DspFanOut ==
    /\ dispatcher.pc = "send"
    /\ LET calls == FanOut(notifiers, dispatcher.event)
       IN  /\ invoked' = invoked \o calls
           /\ sending' = sending \cup { calls[i] : i \in 1..Len(calls) }
    /\ dispatcher' = [pc |-> "recv", event |-> 0]
    /\ UNCHANGED <<notifiers, accepted, taken>>
    /\ UNCHANGED <<nmVars, chkVars, cdVars, monVars, cacheVars, accVars, ttlVars,
                   vdVars, whVars, rpVars, sweep>>

\* n.SendMessage(subject, message) returns, with an error or without: the
\* goroutine drops the error.  A slow notifier is a call that never returns.
DspSendReturns(call) ==
    /\ call \in sending
    /\ sending' = sending \ {call}
    /\ UNCHANGED <<notifiers, dispatcher, accepted, taken, invoked>>
    /\ UNCHANGED <<nmVars, chkVars, cdVars, monVars, cacheVars, accVars, ttlVars,
                   vdVars, whVars, rpVars, sweep>>

\* what IsEnabled() of a registered notifier returns changes
DspToggle(n) ==
    /\ notifiers' = [notifiers EXCEPT ![n].enabled = ~@]
    /\ UNCHANGED <<dispatcher, accepted, taken, invoked, sending>>
    /\ UNCHANGED <<nmVars, chkVars, cdVars, monVars, cacheVars, accVars, ttlVars,
                   vdVars, whVars, rpVars, sweep>>

\* Stop: close(nm.queue)
DspStop ==
    /\ ~queueClosed
    /\ queueClosed' = TRUE
    /\ UNCHANGED <<queue, enabled, sentHistory, nmNow, senders, lastSend, recorded>>
    /\ UNCHANGED <<dspVars>>
    /\ UNCHANGED <<chkVars, cdVars, monVars, cacheVars, accVars, ttlVars,
                   vdVars, whVars, rpVars, sweep>>

SpecDispatchInit ==
    /\ DspInit /\ NmInit /\ vdIdle /\ whIdle /\ rpIdle /\ sweepIdle
    /\ chkIdle /\ cdIdle /\ monIdle /\ cacheIdle /\ accIdle /\ ttlIdle

SpecDispatchNext ==
    \/ DspAccept
    \/ DspRecv
    \/ DspFanOut
    \/ \E call \in sending : DspSendReturns(call)
    \/ \E n \in DOMAIN notifiers : DspToggle(n)
    \/ DspStop

\* The dispatcher is a goroutine of its own that the scheduler keeps running;
\* nothing is assumed of the SendMessage calls.
SpecDispatch ==
    /\ SpecDispatchInit /\ [][SpecDispatchNext]_vars
    /\ WF_vars(DspRecv) /\ WF_vars(DspFanOut)

\* the events are taken in the order in which they were accepted
TakenInOrder ==
    /\ Len(taken) <= Len(accepted)
    /\ \A i \in 1..Len(taken) : taken[i] = accepted[i]
\* SendMessage was called at most once for an event on a notifier
InvokedOnce ==
    \A i, j \in 1..Len(invoked) : invoked[i] = invoked[j] => i = j
\* the step that handles an event calls SendMessage on exactly the registered
\* notifiers that are enabled then
FanOutStep ==
    (dispatcher.pc = "send" /\ dispatcher'.pc # "send") =>
        /\ { invoked'[i] : i \in (Len(invoked) + 1)..Len(invoked') }
             = { <<dispatcher.event, notifiers[n].type>> :
                   n \in { m \in DOMAIN notifiers : notifiers[m].enabled } }
        /\ SubSeq(invoked', 1, Len(invoked)) = invoked
Handled(e) ==
    /\ \E i \in 1..Len(taken) : taken[i] = e
    /\ ~(dispatcher.pc = "send" /\ dispatcher.event = e)

\* C31: the dispatcher takes the events in the order in which they were
\* accepted into the queue; handling an event calls SendMessage once on every
\* registered notifier that is enabled at that moment; and every accepted event
\* is eventually taken and handled, whether or not the SendMessage calls of
\* earlier events have returned.
C31_EveryEventDispatched ==
    /\ [](TakenInOrder /\ InvokedOnce)
    /\ [][FanOutStep]_vars
    /\ \A e \in 1..DspMaxEvents :
          (\E i \in 1..Len(accepted) : accepted[i] = e) ~> Handled(e)

\* C31 witness: the second event has been handled and sent to telegram while
\* the SendMessage call of the first event on email has not returned
C31_Witness ==
    /\ Handled(2)
    /\ <<1, "email">> \in sending
    /\ \E i \in 1..Len(invoked) : invoked[i] = <<2, "telegram">>

-----------------------------------------------------------------------------
(* SpecHistory: NotificationManager.ClearHistory,                            *)
(* src/notification/notifier.go.  Time in hours, as in SpecNotify.           *)

HistoryWindow == 720    \* 30 * 24 * time.Hour

\* the keys recorded and the instants at which the clock is read
HsKeys == { <<A_C, StatusAvailable>>, <<A_C, StatusRegistered>>, <<B_C, StatusAvailable>> }
HsInstants == { 0, 1, 720, 721, 722 }

\* delete(statusHistory, status) for every status with lastSent.Before(cutoff)
SweepStatuses(statusHistory, cutoff) ==
    [st \in { x \in DOMAIN statusHistory : ~(statusHistory[x] < cutoff) } |->
        statusHistory[st]]

\* ClearHistory with the record made exactly 30 days before removed as well
ClearHistory_AtThirtyDays(hist, t) ==
    LET cutoff == t - HistoryWindow
        keep(statusHistory) ==
            [st \in { x \in DOMAIN statusHistory : statusHistory[x] > cutoff } |->
                statusHistory[st]]
    IN  [d \in { x \in DOMAIN hist : DOMAIN keep(hist[x]) # {} } |-> keep(hist[d])]

\* cutoff := time.Now().Add(-30 * 24 * time.Hour); every status history is
\* swept, and a domain whose history is left empty is deleted
ClearHistory(hist, t) ==
    LET cutoff == t - HistoryWindow
    IN  [d \in { x \in DOMAIN hist : DOMAIN SweepStatuses(hist[x], cutoff) # {} } |->
            SweepStatuses(hist[d], cutoff)]

HsInit == sweep = [at |-> NoTime]

\* nm.recordNotification(domain, status)
HsRecord(key) ==
    /\ sentHistory' = recordNotification(sentHistory, key[1], key[2], nmNow)
    /\ sweep' = [at |-> NoTime]
    /\ UNCHANGED <<queue, queueClosed, enabled, nmNow, senders, lastSend, recorded>>
    /\ UNCHANGED <<chkVars, cdVars, monVars, cacheVars, accVars, ttlVars,
                   vdVars, whVars, rpVars, dspVars>>

\* nm.ClearHistory()
HsClear ==
    /\ sentHistory' = ClearHistory(sentHistory, nmNow)
    /\ sweep' = [at |-> nmNow, before |-> sentHistory]
    /\ UNCHANGED <<queue, queueClosed, enabled, nmNow, senders, lastSend, recorded>>
    /\ UNCHANGED <<chkVars, cdVars, monVars, cacheVars, accVars, ttlVars,
                   vdVars, whVars, rpVars, dspVars>>

\* time passes
HsTick(t) ==
    /\ t > nmNow
    /\ nmNow' = t
    /\ sweep' = [at |-> NoTime]
    /\ UNCHANGED <<queue, queueClosed, enabled, sentHistory, senders, lastSend, recorded>>
    /\ UNCHANGED <<chkVars, cdVars, monVars, cacheVars, accVars, ttlVars,
                   vdVars, whVars, rpVars, dspVars>>

SpecHistoryInit ==
    /\ NmInit /\ HsInit
    /\ vdIdle /\ whIdle /\ rpIdle /\ dspIdle
    /\ chkIdle /\ cdIdle /\ monIdle /\ cacheIdle /\ accIdle /\ ttlIdle

SpecHistoryNext ==
    \/ \E key \in HsKeys : HsRecord(key)
    \/ HsClear
    \/ \E t \in HsInstants : HsTick(t)

SpecHistory == SpecHistoryInit /\ [][SpecHistoryNext]_vars

\* the (domain, status) records of a history
HistoryKeys(hist) ==
    { k \in HsKeys : k[1] \in DOMAIN hist /\ k[2] \in DOMAIN hist[k[1]] }
\* the age of a record at the sweep
AgeAtSweep(key) == sweep.at - sweep.before[key[1]][key[2]]

\* C32: after ClearHistory the history holds exactly the records that were at
\* most 30 days old at the sweep, each with the time it had, and no domain
\* with an empty map.
C32_SweepOlderThan30Days ==
    sweep.at # NoTime =>
        /\ HistoryKeys(sentHistory)
             = { k \in HistoryKeys(sweep.before) : AgeAtSweep(k) <= HistoryWindow }
        /\ \A k \in HistoryKeys(sentHistory) :
              sentHistory[k[1]][k[2]] = sweep.before[k[1]][k[2]]
        /\ \A d \in DOMAIN sentHistory : DOMAIN sentHistory[d] # {}

\* C32 witness: a sweep removed a.c's record of 31 days before, kept its record
\* of exactly 30 days before, and dropped b.c, whose only record was too old
C32_Witness ==
    /\ sweep.at = 721
    /\ HistoryKeys(sweep.before) = HsKeys
    /\ sweep.before[A_C][StatusAvailable] = 0
    /\ sweep.before[B_C][StatusAvailable] = 0
    /\ HistoryKeys(sentHistory) = { <<A_C, StatusRegistered>> }
    /\ sentHistory[A_C][StatusRegistered] = 1
    /\ DOMAIN sentHistory = { A_C }

-----------------------------------------------------------------------------
(* SpecRestart: the monitor started and stopped more than once: Start, Stop  *)
(* and the monitor loops, src/core/whois.go                                  *)

MaxRestarts == 2    \* successful Start calls in a behaviour of SpecRestart

SpecRestartNext ==
    \/ \E list \in MonDomainLists : LoadDomains(list)
    \/ MonStartUpTo(MaxRestarts)
    \/ MonStop
    \/ \E id \in 1..MaxRestarts : LoopFirst(id)
    \/ \E id \in 1..MaxRestarts : LoopTick(id)
    \/ \E id \in 1..MaxRestarts : LoopStopped(id)
    \/ \E id \in 1..MaxRestarts : LoopProcess(id)
    \/ \E id \in 1..MaxRestarts : LoopStore(id)

SpecRestart == Init /\ [][SpecRestartNext]_vars

\* a monitorLoop that has not returned
LoopAlive(id) == loops[id].pc # "exited"

\* C33: no Stop closes the stop channel a second time, and while the monitor
\* is running a monitorLoop is alive whose stop channel is open, so that it
\* goes on checking at every tick.
C33_SafeRestart ==
    /\ stopPanics = 0
    /\ isRunning =>
          /\ ~stopClosed
          /\ \E id \in DOMAIN loops : LoopAlive(id)

-----------------------------------------------------------------------------
(* SpecForce: ForceCheck beside the monitor loop, src/core/whois.go.  No     *)
(* other caller writes the cache.                                            *)

SpecForceNext ==
    \/ \E list \in MonDomainLists : LoadDomains(list)
    \/ MonStart
    \/ MonStop
    \/ \E id \in 1..MaxStarts : LoopFirst(id)
    \/ \E id \in 1..MaxStarts : LoopTick(id)
    \/ \E id \in 1..MaxStarts : LoopStopped(id)
    \/ \E id \in 1..MaxStarts : LoopProcess(id)
    \/ \E id \in 1..MaxStarts : LoopStore(id)
    \/ \E domain \in MonNames : FcBegin(domain)
    \/ FcCheck
    \/ FcDetect

SpecForce == Init /\ [][SpecForceNext]_vars

\* no ForceCheck and no batch is in progress
Quiet == fc.pc = "idle" /\ \A id \in DOMAIN loops : ~InBatch(id)

\* C34: once a ForceCheck and a batch check of a domain have both completed,
\* a non-error result cached for the domain has the status that lastStatus
\* records for it.
C34_CacheAgreesWithLastStatus ==
    Quiet =>
        \A d \in MonNames :
            (/\ cacheKey(d) \in DOMAIN cache
             /\ cache[cacheKey(d)].Data.Status # StatusError
             /\ d \in DOMAIN lastStatus)
                => cache[cacheKey(d)].Data.Status = lastStatus[d]

-----------------------------------------------------------------------------
(* SpecSendRace: SendNotification called by two goroutines at once,          *)
(* src/notification/notifier.go.  The clock stands still and nothing is      *)
(* taken from the queue, so the queue holds every event enqueued.            *)

ConcurrentSenders == { "caller1", "caller2" }

SendRaceInit ==
    /\ queue = <<>> /\ queueClosed = FALSE /\ enabled = TRUE
    /\ sentHistory = <<>> /\ nmNow = 0
    /\ senders = [s \in ConcurrentSenders |->
                    [pc |-> "idle", event |-> NmEvent("", <<>>, "")]]
    /\ lastSend = [event |-> NmEvent("", <<>>, ""), had |-> FALSE, within |-> FALSE,
                   room |-> TRUE, outcome |-> "none"]
    /\ recorded = <<>>

SpecSendRaceInit == SendRaceInit /\ chkIdle /\ cdIdle /\ monIdle /\ extIdle

SpecSendRaceNext ==
    \/ \E s \in ConcurrentSenders, e \in NmEvents : NmSendBegin(s, e)
    \/ \E s \in ConcurrentSenders : NmSendDedup(s)
    \/ \E s \in ConcurrentSenders : NmSendSelect(s)
    \/ \E s \in ConcurrentSenders : NmSendRecord(s)

SpecSendRace == SpecSendRaceInit /\ [][SpecSendRaceNext]_vars

\* C35: of the status_change events for one (domain, status) that concurrent
\* SendNotification calls submit within 24 hours, at most one is enqueued.
C35_AtMostOneEnqueued ==
    \A i, j \in 1..Len(queue) :
        (/\ queue[i].Type = "status_change"
         /\ queue[j].Type = "status_change"
         /\ queue[i].Domain = queue[j].Domain
         /\ queue[i].Status = queue[j].Status) => i = j

-----------------------------------------------------------------------------
(* Stopping the NotificationManager *)

\* C36: no SendNotification call sends on the closed queue: once Stop has
\* closed nm.queue no caller is at the select with an event, and no call has
\* ended in the panic of a send on a closed channel.
C36_SafeShutdown ==
    /\ queueClosed => \A s \in NotifySenders : senders[s].pc # "select"
    /\ lastSend.outcome # "panic"

-----------------------------------------------------------------------------
(* The size of the cache and overwriting (specification SpecCache). *)

\* C37: with the capacity fixed at CacheCap, whatever calls of Set, Get,
\* Delete and Clear and whatever cleanup passes have happened, the cache never
\* holds more than CacheCap items.
C37_SizeWithinCapacity == Cardinality(DOMAIN cache) <= CacheCap

\* a Set of a new key into a full cache has evicted an item, and the cache is
\* full again
C37_Witness ==
    /\ cacheCall.op = "set"
    /\ DOMAIN cacheCall.evicted # {}
    /\ cacheCall.key \notin DOMAIN cacheCall.evicted
    /\ Cardinality(DOMAIN cache) = CacheCap

\* the step is a Set of a key the cache holds
Overwrites(key) ==
    /\ cacheCall'.op = "set" /\ cacheCall'.key = key
    /\ key \in DOMAIN cache
    /\ cache' \in SetWithDuration(cache, CacheCap, key, CacheValue(key), CacheDuration, now)

\* C38: a Set of a key that the cache already holds evicts nothing: the keys
\* of the cache stay the same and every other item stays as it was, also when
\* the cache holds CacheCap items.
C38_OverwriteEvictsNothing ==
    [][\A key \in CacheKeys :
          Overwrites(key) =>
              /\ DOMAIN cache' = DOMAIN cache
              /\ \A j \in DOMAIN cache \ {key} : cache'[j] = cache[j]]_vars

-----------------------------------------------------------------------------
(* GetAllDomainInfo and the domain list (specification SpecSnapshot). *)

\* results has one entry for each domain of list, in the order of the list
Describes(res, list) ==
    /\ Len(res) = Len(list)
    /\ \A i \in 1..Len(list) : res[i].Name = list[i]
\* a call of GetAllDomainInfo returns, having begun with the list as it is now
GaReturns ==
    /\ gaRet' # gaRet
    /\ gaRet'.queried => ga.domains = domains

\* C39: a call of GetAllDomainInfo made with the domain list as LoadDomains
\* left it returns exactly one entry per domain of that list, in list order.
C39_DescribesCurrentList ==
    [][GaReturns => Describes(gaRet'.results, domains')]_vars

-----------------------------------------------------------------------------
(* SpecBatchLive: CheckDomains as in SpecBatch, called with whatever integer *)
(* the configuration holds (the checker reads config.Monitor.ConcurrentLimit *)
(* as it is), with every goroutine scheduled again and again and every      *)
(* CheckDomain call returning.                                               *)

\* the limits tried: a negative one, zero, and those of SpecBatch
CdLimits == (0 - 1)..MaxLimit

CdLiveInit ==
    /\ cdPc = "start"
    /\ cdDomains \in SeqsUpTo(BatchNames, MaxDomains)
    /\ cdLimit \in CdLimits
    /\ jobs = <<>>
    /\ jobsClosed = FALSE
    /\ results_chan = <<>>
    /\ results = [i \in 1..Len(cdDomains) |-> NilInfo]
    /\ workers = <<>>
    /\ cdSent = 0
    /\ cdCollected = 0
    /\ checked = [i \in 1..Len(cdDomains) |-> <<>>]
    /\ cdOrder = <<>>

\* the steps of the calling goroutine
CdCaller == CdSpawn \/ CdSendJob \/ CdCloseJobs \/ CdCollect \/ CdReturn
\* the steps of worker goroutine w
CdWorker(w) == w \in DOMAIN workers /\ (WorkerRecv(w) \/ WorkerCheck(w))

SpecBatchLiveInit == CdLiveInit /\ chkIdle /\ monIdle /\ nmIdle /\ extIdle

SpecBatchLive ==
    /\ SpecBatchLiveInit /\ [][SpecBatchNext]_vars
    /\ WF_vars(CdCaller)
    /\ \A w \in 1..MaxDomains : WF_vars(CdWorker(w))

=============================================================================
